---------------------------- MODULE Spec2Model ----------------------------
(***************************************************************************)
(* A model of the poll-based TCP group chat server (src/src/server.c), of  *)
(* the wire format its clients build and read (src/src/common.c), and of   *)
(* the peers that feed it bytes.                                           *)
(*                                                                         *)
(* The server code is translated as operators over a record w, "the        *)
(* world": w.clients is the clients[] array, w.open the descriptors the    *)
(* process holds open, w.out the system calls made so far by the handler   *)
(* that is running (accept, close, send), w.rest the bytes a read left in  *)
(* the socket, w.smashed whether a write went past an array, w.aborted     *)
(* whether the process has been killed for it.  The actions of the         *)
(* specifications apply these operators to the variables.                  *)
(***************************************************************************)
EXTENDS Integers, Sequences, FiniteSets, TLC

(* ------------------------------ constants ------------------------------ *)

MSG_TYPE_CHAT == 0
MSG_TYPE_DISCONNECT == 1
MSG_TYPE_JOIN == 2
MSG_TYPE_USERNAME == 3
MAX_USERNAME_LEN == 32
BUF_SIZE == 1024
\* '\n', the frame terminator
NL == 10

\* argv[2] of the server: the number of slots of clients[]
max_clients == 2

Slots == 0..(max_clients - 1)

\* Descriptors 0, 1, 2 are the standard streams of the process.
StdFds == {0, 1, 2}

Min(a, b) == IF a < b THEN a ELSE b

\* The lowest descriptor number not in use: what socket() and accept() return.
LowestFree(open) == CHOOSE f \in 0..(Cardinality(open)) : f \notin open /\ \A g \in 0..(f - 1) : g \in open

\* n bytes of 'x'
Filler(n) == [k \in 1..n |-> 120]

\* calloc'ed char username[MAX_USERNAME_LEN]
ZeroName == [k \in 1..MAX_USERNAME_LEN |-> 0]

NoAddr == [ip |-> <<0, 0, 0, 0>>, port |-> <<0, 0>>]

\* One entry of w.out: a system call the server made.
Ev(op, fd, msg) == [op |-> op, fd |-> fd, msg |-> msg]

(* --------------------------- libc on sequences -------------------------- *)

\* memchr(buf, '\n', len): the 1-based position of the first terminator, 0 for NULL
FirstOf(at) == IF at = {} THEN 0 ELSE CHOOSE k \in at : \A j \in at : k <= j

IsNL(b) == b = NL

memchr(buf) == IF SelectSeq(buf, IsNL) = <<>> THEN 0 ELSE FirstOf({k \in 1..Len(buf) : buf[k] = NL})

\* strlen of a char array: the number of bytes before the first NUL
strlen(s) == IF \E k \in 1..Len(s) : s[k] = 0 THEN FirstOf({k \in 1..Len(s) : s[k] = 0}) - 1 ELSE Len(s)

\* memcpy(username, src, n); username[n] = '\0': the rest of the array is kept
StoreName(old, src, n) == [k \in 1..MAX_USERNAME_LEN |-> IF k <= n THEN src[k] ELSE IF k = n + 1 THEN 0 ELSE old[k]]

(* ------------------------------- the server ----------------------------- *)

\* A send whose bytes overtake the bytes already handed to the sockets.
send_exact_ahead(w, fd, msg) == [w EXCEPT !.out = <<Ev("send", fd, msg)>> \o @]

\* A send_exact that returned -1 with errno set after send() had taken the first
\* sent bytes of msg.
Short(fd, msg, sent, errno) == [op |-> "short", fd |-> fd, msg |-> msg, sent |-> sent, errno |-> errno]

\* A send_exact that goes on to the end of the frame when send() fails.
send_exact_through(w, fd, msg) == [w EXCEPT !.out = Append(@, Ev("send", fd, msg))]

\* send_exact(fd, msg, msg_len), called by broadcast_message.  w.net[fd] is what
\* the socket does: with errno "none" it takes every byte, otherwise it takes
\* `after` more bytes and send() then returns -1 with that errno.
send_exact(w, fd, msg) ==
  IF w.net[fd].errno = "none" THEN [w EXCEPT !.out = Append(@, Ev("send", fd, msg))]
  ELSE IF w.net[fd].after >= Len(msg) THEN [w EXCEPT !.out = Append(@, Ev("send", fd, msg)), !.net[fd].after = @ - Len(msg)]
  ELSE [w EXCEPT !.out = Append(@, Short(fd, msg, w.net[fd].after, w.net[fd].errno)), !.net[fd].after = 0]

\* A broadcast that leaves out the first descriptor the server accepts.
is_later_recipient(cli) == cli.fd # -1 /\ cli.fd > 4

\* The condition under which broadcast_message sends to slot i.
is_recipient(cli) == cli.fd # -1 /\ cli.fd > 0

\* A broadcast that ends at the first send that fails.
RECURSIVE broadcast_loop_until_failure(_, _, _)
broadcast_loop_until_failure(w, msg, i) ==
  IF i >= max_clients \/ (w.out # <<>> /\ w.out[Len(w.out)].op = "short") THEN w
  ELSE broadcast_loop_until_failure(IF is_recipient(w.clients[i]) THEN send_exact(w, w.clients[i].fd, msg) ELSE w, msg, i + 1)

RECURSIVE broadcast_loop(_, _, _)
broadcast_loop(w, msg, i) == IF i >= max_clients THEN w ELSE broadcast_loop(IF is_recipient(w.clients[i]) THEN send_exact(w, w.clients[i].fd, msg) ELSE w, msg, i + 1)

broadcast_message(w, msg) == IF Len(msg) <= 0 THEN w ELSE broadcast_loop(w, msg, 0)

\* [type][ip:4][port:2][strlen(username)][username]
Field(username, username_len) == <<username_len>> \o SubSeq(username, 1, username_len)

Header(type, addr, username) == <<type>> \o addr.ip \o addr.port \o Field(username, strlen(username))

JoinFrame(cli) == Header(MSG_TYPE_JOIN, cli.addr, cli.username) \o <<NL>>

\* A registration that announces nothing.
broadcast_join_none(w, i) == w

broadcast_join(w, i) == broadcast_message(w, JoinFrame(w.clients[i]))

DisconnectFrame(cli) == Header(MSG_TYPE_DISCONNECT, cli.addr, cli.username) \o <<NL>>

\* A close that empties the buffer of every session.
close_slot_table(w, i) == [w EXCEPT !.out = Append(@, Ev("close", w.clients[i].fd, <<>>)), !.open = @ \ {w.clients[i].fd},
                                     !.clients = [j \in Slots |-> IF j = i THEN [@[j] EXCEPT !.fd = -1, !.buf = <<>>, !.has_username = FALSE] ELSE [@[j] EXCEPT !.buf = <<>>]]]

\* A close that leaves the bytes of the session in its buffer.
close_slot_full(w, i) == [w EXCEPT !.out = Append(@, Ev("close", w.clients[i].fd, <<>>)), !.open = @ \ {w.clients[i].fd}, !.clients[i].fd = -1, !.clients[i].has_username = FALSE]

\* A close that leaves the descriptor in the slot.
close_slot_keep(w, i) == [w EXCEPT !.out = Append(@, Ev("close", w.clients[i].fd, <<>>)), !.open = @ \ {w.clients[i].fd}, !.clients[i].buf = <<>>, !.clients[i].has_username = FALSE]

\* close(cli->fd); cli->fd = -1; cli->len = 0; cli->has_username = 0
close_slot(w, i) == [w EXCEPT !.out = Append(@, Ev("close", w.clients[i].fd, <<>>)), !.open = @ \ {w.clients[i].fd}, !.clients[i].fd = -1, !.clients[i].buf = <<>>, !.clients[i].has_username = FALSE]

\* A teardown that tells nobody.
remove_client_silent(w, i) == IF w.clients[i].fd = -1 THEN w ELSE close_slot(w, i)

\* A teardown that announces every session, with or without a username.
remove_client_always(w, i) == IF w.clients[i].fd = -1 THEN w ELSE broadcast_message(close_slot(w, i), DisconnectFrame(w.clients[i]))

\* A teardown that marks the slot empty after the broadcast.
remove_client_late_mark(w, i) ==
  LET cli == w.clients[i]
      closed == [w EXCEPT !.out = Append(@, Ev("close", cli.fd, <<>>)), !.open = @ \ {cli.fd}]
      told == IF cli.has_username THEN broadcast_message(closed, DisconnectFrame(cli)) ELSE closed IN
  IF cli.fd = -1 THEN w
  ELSE [told EXCEPT !.clients[i].fd = -1, !.clients[i].buf = <<>>, !.clients[i].has_username = FALSE]

remove_client(w, i) ==
  LET cli == w.clients[i] IN
  IF cli.fd = -1 THEN w
  ELSE IF cli.has_username THEN broadcast_message(close_slot(w, i), DisconnectFrame(cli))
  ELSE close_slot(w, i)

\* The registration test of process_message on a frame of msg_len bytes.
valid_username(buf, msg_len) == msg_len > 2 /\ buf[2] > 0 /\ buf[2] < MAX_USERNAME_LEN /\ msg_len >= 2 + buf[2]

register(w, i, msg_len) ==
  LET cli == w.clients[i] IN
  IF valid_username(cli.buf, msg_len)
  THEN broadcast_join([w EXCEPT !.clients[i].username = StoreName(@, SubSeq(cli.buf, 3, 2 + cli.buf[2]), cli.buf[2]), !.clients[i].has_username = TRUE], i)
  ELSE w

\* A chat frame that leaves the terminator of the client's frame out.
ChatFrameCut(cli, msg_len) == Header(MSG_TYPE_CHAT, cli.addr, cli.username) \o SubSeq(cli.buf, 2, msg_len - 1)

\* The bytes the chat branch assembles in broadcast_msg: header, then the frame after its type byte.
ChatFrame(cli, msg_len) == Header(MSG_TYPE_CHAT, cli.addr, cli.username) \o (IF msg_len - 1 > 0 THEN SubSeq(cli.buf, 2, msg_len) ELSE <<>>)

\* char broadcast_msg[BUF_SIZE + 8]: whether the assembled bytes go past it
chat_overflows(msg) == Len(msg) > BUF_SIZE + 8

\* Writing past broadcast_msg is undefined: a build with a stack protector kills the
\* process when process_message returns, another build carries on.
chat_send(w, msg) == IF chat_overflows(msg) THEN [broadcast_message(w, msg) EXCEPT !.smashed = TRUE, !.aborted = w.protector] ELSE broadcast_message(w, msg)

chat(w, i, msg_len) == chat_send(w, ChatFrame(w.clients[i], msg_len))

\* A dispatch that relays chat whether or not the sender has a username.
process_message_open_chat(w, i, msg_len) ==
  LET cli == w.clients[i]
      msg_type == cli.buf[1]
  IN IF msg_type = MSG_TYPE_USERNAME /\ ~cli.has_username THEN register(w, i, msg_len)
     ELSE IF msg_type = MSG_TYPE_CHAT THEN chat(w, i, msg_len)
     ELSE IF msg_type = MSG_TYPE_DISCONNECT THEN remove_client(w, i)
     ELSE w

\* A dispatch that registers a username whenever a registration frame arrives.
process_message_rename(w, i, msg_len) ==
  LET cli == w.clients[i]
      msg_type == cli.buf[1]
  IN IF msg_type = MSG_TYPE_USERNAME THEN register(w, i, msg_len)
     ELSE IF msg_type = MSG_TYPE_CHAT /\ cli.has_username THEN chat(w, i, msg_len)
     ELSE IF msg_type = MSG_TYPE_DISCONNECT THEN remove_client(w, i)
     ELSE w

\* A dispatch in which a second registration frame takes the username away.
process_message_toggle(w, i, msg_len) ==
  LET cli == w.clients[i]
      msg_type == cli.buf[1]
  IN IF msg_type = MSG_TYPE_USERNAME /\ ~cli.has_username THEN register(w, i, msg_len)
     ELSE IF msg_type = MSG_TYPE_USERNAME THEN [w EXCEPT !.clients[i].has_username = FALSE]
     ELSE IF msg_type = MSG_TYPE_CHAT /\ cli.has_username THEN chat(w, i, msg_len)
     ELSE IF msg_type = MSG_TYPE_DISCONNECT THEN remove_client(w, i)
     ELSE w

process_message(w, i, msg_len) ==
  LET cli == w.clients[i]
      msg_type == cli.buf[1]
  IN IF msg_type = MSG_TYPE_USERNAME /\ ~cli.has_username THEN register(w, i, msg_len)
     ELSE IF msg_type = MSG_TYPE_CHAT /\ cli.has_username THEN chat(w, i, msg_len)
     ELSE IF msg_type = MSG_TYPE_DISCONNECT THEN remove_client(w, i)
     ELSE w

\* A removal that empties the buffer.
compact_all(buf, msg_len) == <<>>

\* remaining = len - msg_len; memmove(buf, buf + msg_len, remaining); len = remaining
compact(buf, msg_len) == SubSeq(buf, msg_len + 1, Len(buf))

\* The while loop of handle_client_data: process_buffer is the loop at its test,
\* at_newline the body with newline_ptr at position p (0 for NULL), after_message
\* the body once process_message has returned w.
RECURSIVE process_buffer(_, _)
after_message(w, i, p) == IF w.clients[i].fd = -1 \/ w.aborted THEN w ELSE process_buffer([w EXCEPT !.clients[i].buf = compact(@, p)], i)

\* A loop body that lets a full buffer without terminator rest.
at_newline_no_limit(w, i, p) == IF p = 0 THEN w ELSE after_message(process_message(w, i, p), i, p)

at_newline(w, i, p) ==
  IF p = 0 THEN (IF Len(w.clients[i].buf) = BUF_SIZE THEN remove_client(w, i) ELSE w)
  ELSE after_message(process_message(w, i, p), i, p)

process_buffer(w, i) == IF w.clients[i].fd = -1 \/ w.aborted THEN w ELSE at_newline(w, i, memchr(w.clients[i].buf))

\* A read that always asks for BUF_SIZE bytes.
read_count_whole(cli) == BUF_SIZE

\* The third argument of read(): the room left in buf.
read_count(cli) == BUF_SIZE - Len(cli.buf)

\* rd is what the socket holds for this read: [kind |-> "data", data |-> bytes],
\* "eof", "eagain" or "error".  What read(fd, buf + len, count) returns: the
\* number of bytes it took, 0 at the end of the stream, -1 with errno set.
read(rd, count) == IF rd.kind = "data" THEN Min(Len(rd.data), count) ELSE IF rd.kind = "eof" THEN 0 ELSE -1

\* A read that forgets what the buffer held.
do_read_fresh(w, i, rd, num_read) ==
  IF num_read > 0
  THEN process_buffer([w EXCEPT !.clients[i].buf = SubSeq(rd.data, 1, num_read), !.rest = SubSeq(rd.data, num_read + 1, Len(rd.data))], i)
  ELSE IF num_read = 0 THEN remove_client(w, i)
  ELSE IF rd.kind = "eagain" THEN w
  ELSE remove_client(w, i)

\* A handler that takes every failed read for one that would block.
do_read_error_ignored(w, i, rd, num_read) ==
  IF num_read > 0
  THEN process_buffer([w EXCEPT !.clients[i].buf = @ \o SubSeq(rd.data, 1, num_read), !.rest = SubSeq(rd.data, num_read + 1, Len(rd.data))], i)
  ELSE IF num_read = 0 THEN remove_client(w, i)
  ELSE w

\* A handler for which a read that would block is an error like another.
do_read_block_fatal(w, i, rd, num_read) ==
  IF num_read > 0
  THEN process_buffer([w EXCEPT !.clients[i].buf = @ \o SubSeq(rd.data, 1, num_read), !.rest = SubSeq(rd.data, num_read + 1, Len(rd.data))], i)
  ELSE remove_client(w, i)

\* handle_client_data from the return of read()
do_read(w, i, rd, num_read) ==
  IF num_read > 0
  THEN process_buffer([w EXCEPT !.clients[i].buf = @ \o SubSeq(rd.data, 1, num_read), !.rest = SubSeq(rd.data, num_read + 1, Len(rd.data))], i)
  ELSE IF num_read = 0 THEN remove_client(w, i)
  ELSE IF rd.kind = "eagain" THEN w
  ELSE remove_client(w, i)

handle_client_data(w, i, rd) == IF w.clients[i].fd = -1 THEN w ELSE do_read(w, i, rd, read(rd, read_count(w.clients[i])))

\* A search that falls back on slot 0 when the table is full.
free_slot_or_first(clients) == IF \E j \in Slots : clients[j].fd = -1 THEN CHOOSE j \in Slots : clients[j].fd = -1 /\ \A k \in 0..(j - 1) : clients[k].fd # -1 ELSE 0

\* The first empty slot, -1 when the table is full.
free_slot(clients) == IF \E j \in Slots : clients[j].fd = -1 THEN CHOOSE j \in Slots : clients[j].fd = -1 /\ \A k \in 0..(j - 1) : clients[k].fd # -1 ELSE -1

\* A search for a slot that goes on after the first empty one.
place_client_no_break(w, acc, fd, j) ==
  IF ~acc.nonblock \/ j = -1
  THEN [w EXCEPT !.out = @ \o <<Ev("accept", fd, <<>>), Ev("close", fd, <<>>)>>]
  ELSE [w EXCEPT !.out = Append(@, Ev("accept", fd, <<>>)), !.open = @ \cup {fd},
                 !.clients = [k \in Slots |-> IF @[k].fd = -1 THEN [@[k] EXCEPT !.fd = fd, !.buf = <<>>, !.addr = acc.addr, !.has_username = FALSE] ELSE @[k]]]

\* An accept that leaves in the slot the address it finds there.
place_client_old_addr(w, acc, fd, j) ==
  IF ~acc.nonblock \/ j = -1
  THEN [w EXCEPT !.out = @ \o <<Ev("accept", fd, <<>>), Ev("close", fd, <<>>)>>]
  ELSE [w EXCEPT !.out = Append(@, Ev("accept", fd, <<>>)), !.open = @ \cup {fd}, !.clients[j].fd = fd, !.clients[j].buf = <<>>, !.clients[j].has_username = FALSE]

\* acc is what accept() and set_nonblocking() do: [ok, addr, nonblock].
place_client(w, acc, fd, j) ==
  IF ~acc.nonblock \/ j = -1
  THEN [w EXCEPT !.out = @ \o <<Ev("accept", fd, <<>>), Ev("close", fd, <<>>)>>]
  ELSE [w EXCEPT !.out = Append(@, Ev("accept", fd, <<>>)), !.open = @ \cup {fd}, !.clients[j].fd = fd, !.clients[j].buf = <<>>, !.clients[j].addr = acc.addr, !.clients[j].has_username = FALSE]

accept_client(w, acc) == IF ~acc.ok THEN w ELSE place_client(w, acc, LowestFree(w.open), free_slot(w.clients))

(* ------------------------------- the peers ------------------------------ *)

\* Frames as the clients build them: [3][len][username]\n, [0][message]\n, [1]\n
RegA == <<3, 1, 97, 10>>
\* declares two name bytes and carries one before the terminator
RegShort == <<3, 2, 98, 10>>
ChatH == <<0, 104, 10>>
ChatEmpty == <<0, 10>>
Disc == <<1, 10>>

\* What a read can deliver: whole frames, several frames at once, the pieces of a
\* frame split in two, a frame followed by the start of the next, and a run of
\* BUF_SIZE bytes with no terminator.
Chunks == { RegA, RegShort, ChatH, ChatEmpty, <<0>>, <<NL>>, Disc \o ChatH, RegA \o Disc, RegA \o ChatH \o <<0>>, Filler(BUF_SIZE) }

\* The unterminated contents a buffer is left with between reads.
Partials == { <<>>, <<0>> }

\* A registration as "al"
RegAl == <<3, 2, 97, 108, 10>>

\* The same with a username of two bytes and the body of a chat frame that fills
\* the buffer up to its terminator.
LongChunks == Chunks \cup { RegAl, Filler(BUF_SIZE - 2) }

LongPartials == Partials \cup { <<0>> \o Filler(BUF_SIZE - 2) }

\* Peer addresses as accept() reports them, in network byte order: the live
\* connections to one listening socket have distinct addresses.
AddrList == [k \in 1..(max_clients + 1) |-> [ip |-> <<10, 0, 0, k>>, port |-> <<31, 9 + k>>]]

(* ------------------------------ the event loop -------------------------- *)

\* clients, server_running: the globals of server.c; open: the descriptors of the
\* process; pc: where main() is; last: the event the latest iteration of the loop
\* handled; out: the system calls its handler made.
\* rx: what the peer of each slot has received, by originating address.
\* feed: a frame the peer of slot 0 sends in pieces, how much of it has been read,
\* and the table before its first byte.
\* codec: a client on slot 0 and one on slot 1: what the first is to send, the
\* bytes on their way to the second, and the fields put in and taken out of the
\* frame decoded last.
\* ready: the entries of poll_fds that poll() reported and the iteration has still
\* to look at, 0 for the listening socket and i + 1 for slot i.
\* poll_fds: the array main() hands to poll(), entry 0 for the listening socket
\* and entry i + 1 for slot i.
\* saved: what a remove_client that has not returned yet saved of its session,
\* and the slot it is at
\* hex: a call of bytes_to_hex: its arguments, the memory str points to and what
\* it returned
VARIABLES clients, open, server_running, pc, last, out, rx, feed, codec, ready, poll_fds, saved, hex, ep

vars == <<clients, open, server_running, pc, last, out, rx, feed, codec, ready, poll_fds, saved, hex, ep>>

\* The peers the specification does not follow.
peers == <<rx, feed, codec>>

\* An event of the loop: a connection on the listening socket, or a read on slot i
\* and what read() returned.
Event(op, slot, rd, num_read) == [op |-> op, slot |-> slot, rd |-> rd, num_read |-> num_read]

\* socket() in main: the listening socket
server_fd == LowestFree(StdFds)

\* The descriptors accept() gives the sessions of the table
ClientFds == (server_fd + 1)..(server_fd + max_clients)

\* Sockets that take every byte the server sends
Sound == [fd \in ClientFds |-> [errno |-> "none", after |-> 0]]

\* A pointer: NULL, or the bytes it points to
Null == [null |-> TRUE, bytes |-> <<>>]

Ptr(bytes) == [null |-> FALSE, bytes |-> bytes]

\* No call of bytes_to_hex
\* The server of src/server.c, not started: its table, its two counters, the
\* descriptors it holds, the calls and the event of its last handler, and for
\* each slot how many disconnect frames its connection has delivered.
NoEp == [clients |-> [i \in Slots |-> [fd |-> -1, buf |-> <<>>]], type1_count |-> 0, client_count |-> 0, open |-> {},
         out |-> <<>>, last |-> Event("none", -1, <<>>, 0), status |-> "none", sent |-> [i \in Slots |-> 0]]

NoHex == [buf |-> Null, buf_size |-> 0, str |-> Null, str_size |-> 0, ret |-> 0, stage |-> "none"]

\* No remove_client is under way.
NoSaved == [slot |-> -1, had_username |-> FALSE, username_copy |-> ZeroName, addr_copy |-> NoAddr]

\* The array after the copy at the top of the loop: poll_fds[0].fd = server_fd,
\* poll_fds[i + 1].fd = clients[i].fd
fill_poll_fds(cl) == [e \in 0..max_clients |-> IF e = 0 THEN server_fd ELSE cl[e - 1].fd]

\* The world a handler starts from, in a build whose stack protector is on or off.
WorldOf(cl, fds, protector) == [clients |-> cl, open |-> fds, out |-> <<>>, rest |-> <<>>, smashed |-> FALSE, aborted |-> FALSE, protector |-> protector, net |-> Sound]

World(protector) == WorldOf(clients, open, protector)

Occupied == {i \in Slots : clients[i].fd # -1}

Addrs == {AddrList[k] : k \in 1..Len(AddrList)}

\* A peer that has received nothing.
NoRx == [a \in Addrs |-> <<>>]

\* main() up to the event loop: the table is empty and the listening socket open.
InitServer ==
  /\ clients = [i \in Slots |-> [fd |-> -1, buf |-> <<>>, addr |-> NoAddr, username |-> ZeroName, has_username |-> FALSE]]
  /\ open = StdFds \cup {server_fd}
  /\ server_running = TRUE
  /\ pc = "poll"
  /\ last = Event("none", -1, <<>>, 0)
  /\ out = <<>>
  /\ ready = {}
  /\ poll_fds = fill_poll_fds(clients)
  /\ saved = NoSaved

NoFeed == [frame |-> <<>>, pos |-> 0, start |-> <<>>, fds |-> {}]

NoCodec == [username |-> <<>>, message |-> <<>>, stage |-> "none", stream |-> <<>>, sent |-> <<>>, put |-> <<>>, got |-> <<>>]

Init == InitServer /\ rx = [j \in Slots |-> NoRx] /\ feed = NoFeed /\ codec = NoCodec /\ hex = NoHex /\ ep = NoEp

\* After a handler: a killed process holds no descriptor and runs no further.
Commit(w) ==
  /\ clients' = w.clients
  /\ out' = w.out
  /\ open' = IF w.aborted THEN {} ELSE w.open
  /\ pc' = IF w.aborted THEN "aborted" ELSE "poll"
  /\ poll_fds' = fill_poll_fds(w.clients)
  /\ UNCHANGED <<saved, hex, ep>>

\* The address the next connection comes from: the first that no live connection has.
NextAddr == AddrList[CHOOSE k \in 1..Len(AddrList) : (\A i \in Occupied : clients[i].addr # AddrList[k]) /\ \A m \in 1..(k - 1) : \E i \in Occupied : clients[i].addr = AddrList[m]]

\* What accept() and set_nonblocking() can do.
Accepts == {[ok |-> FALSE, nonblock |-> FALSE, addr |-> NoAddr], [ok |-> TRUE, nonblock |-> FALSE, addr |-> NoAddr]} \cup {[ok |-> TRUE, nonblock |-> TRUE, addr |-> NextAddr]}

\* An iteration of the loop in which poll() reports the listening socket:
\* if (poll_fds[0].revents & POLLIN) accept_client(server_fd)
Accept ==
  /\ pc = "poll"
  /\ server_running
  /\ \E acc \in Accepts : \E w \in {accept_client(World(FALSE), acc)} : Commit(w) /\ last' = Event("accept", -1, acc, 0)
  /\ UNCHANGED <<server_running, ready>>

\* A buffer after a read: it holds a frame, one of the partial contents, or is full.
Readable(nb, partials) == Len(nb) = BUF_SIZE \/ nb \in partials \/ memchr(nb) # 0

\* What the socket of slot i can hold at a read: a chunk that completes a frame,
\* leaves one of the partial contents or fills the buffer; or no data.
Reads(i, chunks, partials) ==
  {[kind |-> "data", data |-> c] : c \in {c \in chunks :
      Readable(clients[i].buf \o SubSeq(c, 1, Min(Len(c), BUF_SIZE - Len(clients[i].buf))), partials)}}
  \cup {[kind |-> k, data |-> <<>>] : k \in {"eof", "eagain", "error"}}

\* The outcomes of the handler of slot i on rd: one, or two where the undefined
\* write past broadcast_msg makes the builds differ.
Outcomes(w, cl, fds, i, rd) == IF w.smashed THEN {w, handle_client_data(WorldOf(cl, fds, TRUE), i, rd)} ELSE {w}

HandledFrom(cl, fds, i, rd) == Outcomes(handle_client_data(WorldOf(cl, fds, FALSE), i, rd), cl, fds, i, rd)

Handled(i, rd) == HandledFrom(clients, open, i, rd)

\* An iteration of the loop in which poll() reports slot i (POLLIN, POLLHUP or
\* POLLERR): if (clients[i].fd != -1) handle_client_data(&clients[i])
Handle(chunks, partials) ==
  /\ pc = "poll"
  /\ server_running
  /\ \E i \in Occupied : \E rd \in Reads(i, chunks, partials) : \E w \in Handled(i, rd) : Commit(w) /\ last' = Event("read", i, rd, read(rd, read_count(clients[i])))
  /\ UNCHANGED <<server_running, ready>>

AcceptClient == Accept /\ UNCHANGED peers

HandleClientData == Handle(Chunks, Partials) /\ UNCHANGED peers

\* The same iteration with peers that also send the long chat frame.
HandleLongData == Handle(LongChunks, LongPartials) /\ UNCHANGED peers

\* The server while no signal arrives.
Next == AcceptClient \/ HandleClientData

Spec == Init /\ [][Next]_vars

\* The server with peers that also send the long chat frame.
NextLong == AcceptClient \/ HandleLongData

SpecLong == Init /\ [][NextLong]_vars

\* The frames that tell the peers of a session: its registration, its chat, its
\* disconnect, alone and several in one read.
OrderChunks == { RegA, ChatH, Disc \o ChatH, RegA \o ChatH \o <<0>> }

\* The address in the header of a frame the server sent.
Origin(msg) == [ip |-> SubSeq(msg, 2, 5), port |-> SubSeq(msg, 6, 7)]

\* What a peer holds of one origin once a frame of the given type arrives: the types
\* in the order of arrival, a run of Chat frames counted once.
Observe(seen, type) == IF type = MSG_TYPE_CHAT /\ seen # <<>> /\ seen[Len(seen)] = MSG_TYPE_CHAT THEN seen ELSE Append(seen, type)

\* The slot whose socket is fd
SlotOf(fd) == CHOOSE j \in Slots : clients[j].fd = fd

\* TCP hands the bytes of the sends o[k..] to the peers in the order of the calls.
RECURSIVE Deliver(_, _, _)
Deliver(r, o, k) ==
  IF k > Len(o) THEN r
  ELSE IF o[k].op = "send" THEN Deliver([r EXCEPT ![SlotOf(o[k].fd)][Origin(o[k].msg)] = Observe(@, o[k].msg[1])], o, k + 1)
  ELSE Deliver(r, o, k + 1)

\* The peers after a step: a connection that ends or begins has received nothing,
\* and a connection that begins is an origin nobody has heard of.
Received(r) ==
  [j \in Slots |-> IF clients'[j].fd = -1 \/ clients[j].fd = -1 THEN NoRx
                   ELSE [a \in Addrs |-> IF \E k \in Slots : clients[k].fd = -1 /\ clients'[k].fd # -1 /\ clients'[k].addr = a THEN <<>> ELSE r[j][a]]]

AcceptObserved == Accept /\ rx' = Received(rx) /\ UNCHANGED <<feed, codec>>

HandleObserved == Handle(OrderChunks, Partials) /\ (\E r \in {Deliver(rx, out', 1)} : rx' = Received(r)) /\ UNCHANGED <<feed, codec>>

\* The server and what its peers receive.
NextOrder == AcceptObserved \/ HandleObserved

SpecOrder == Init /\ [][NextOrder]_vars

\* The frames a peer sends in pieces.
ChatHi == <<0, 104, 105, 10>>
ChatFull == <<0>> \o Filler(BUF_SIZE - 2) \o <<NL>>
FragFrames == { RegAl, RegShort, ChatHi, ChatEmpty, Disc, ChatFull }

\* Up to this length a frame is cut at every byte, a longer one near its ends.
MaxCut == 8

CutPoints(f) == IF Len(f) <= MaxCut THEN 1..Len(f) ELSE {1, 2, Len(f) - 1, Len(f)}

\* A session of slot j as accept_client and a registration leave it.
Session(j, name) == [fd |-> server_fd + 1 + j, buf |-> <<>>, addr |-> AddrList[j + 1],
                     username |-> IF name = <<>> THEN ZeroName ELSE StoreName(ZeroName, name, Len(name)),
                     has_username |-> name # <<>>]

EmptySlot == [fd |-> -1, buf |-> <<>>, addr |-> NoAddr, username |-> ZeroName, has_username |-> FALSE]

\* The tables the frame arrives in: the sender in slot 0, Registered or not, and
\* in each other slot a Registered session, an Unregistered one or none.
FragTables ==
  {[j \in Slots |-> IF j = 0 THEN Session(0, sender) ELSE IF others[j] = "none" THEN EmptySlot ELSE Session(j, IF others[j] = "named" THEN <<98>> ELSE <<>>)] :
      sender \in {<<>>, <<97>>}, others \in [Slots \ {0} -> {"none", "unnamed", "named"}]}

InitFrag ==
  /\ clients \in FragTables
  /\ open = StdFds \cup {server_fd} \cup {clients[j].fd : j \in Occupied}
  /\ server_running = TRUE
  /\ pc = "poll"
  /\ last = Event("none", -1, <<>>, 0)
  /\ out = <<>>
  /\ ready = {}
  /\ poll_fds = fill_poll_fds(clients)
  /\ saved = NoSaved
  /\ hex = NoHex
  /\ ep = NoEp
  /\ rx = [j \in Slots |-> NoRx]
  /\ \E f \in FragFrames : feed = [frame |-> f, pos |-> 0, start |-> clients, fds |-> open]
  /\ codec = NoCodec

\* An iteration in which read() returns the next piece of the frame, up to byte k.
Fragment ==
  /\ pc = "poll"
  /\ server_running
  /\ \E k \in CutPoints(feed.frame) : \E rd \in {[kind |-> "data", data |-> SubSeq(feed.frame, feed.pos + 1, k)]} :
        /\ k > feed.pos
        /\ \E w \in Handled(0, rd) : Commit(w) /\ last' = Event("read", 0, rd, read(rd, read_count(clients[0])))
        /\ feed' = [feed EXCEPT !.pos = k]
  /\ UNCHANGED <<server_running, rx, codec, ready>>

\* The server reading one frame in pieces.
NextFrag == Fragment

SpecFrag == InitFrag /\ [][NextFrag]_vars

(* ------------------------------ the clients ---------------------------- *)

\* sender_thread: [3][strlen(username)][username]\n
UsernameFrame(username) == <<MSG_TYPE_USERNAME, strlen(username)>> \o SubSeq(username, 1, strlen(username)) \o <<NL>>

\* sender_thread: [0][line]\n
MessageFrame(line) == <<MSG_TYPE_CHAT>> \o line \o <<NL>>

\* sender_thread: [1]\n
EndFrame == <<MSG_TYPE_DISCONNECT, NL>>

\* strcpy(username, "unknown")
Unknown == <<117, 110, 107, 110, 111, 119, 110>>

\* The fields of a frame
Fields(type, addr, username, message) == [type |-> type, ip |-> addr.ip, port |-> addr.port, username |-> username, message |-> message]

\* The message of a Chat frame: the bytes up to the terminator at position nl of
\* tail, of which msg_buf keeps BUF_SIZE - 1.
ReadLine(tail, nl) == SubSeq(tail, 1, Min(nl - 1, BUF_SIZE - 1))

\* receiver_thread past the username of a frame: the message up to the newline for
\* a Chat frame, one byte for the others.
decode_tail(type, addr, username, tail) ==
  IF type = MSG_TYPE_CHAT
  THEN [fields |-> Fields(type, addr, username, ReadLine(tail, memchr(tail))), rest |-> SubSeq(tail, memchr(tail) + 1, Len(tail))]
  ELSE [fields |-> Fields(type, addr, username, <<>>), rest |-> SubSeq(tail, 2, Len(tail))]

\* receiver_thread on the bytes s of its socket, which begin with a frame of type
\* 0, 1 or 2: type, 4 bytes, 2 bytes, the length byte, and as many bytes of name
\* when the length is in 1..31.
receiver_thread(s) ==
  IF s[8] > 0 /\ s[8] < MAX_USERNAME_LEN
  THEN decode_tail(s[1], Origin(s), SubSeq(s, 9, 8 + s[8]), SubSeq(s, 9 + s[8], Len(s)))
  ELSE decode_tail(s[1], Origin(s), Unknown, SubSeq(s, 9, Len(s)))

\* The string in a char array
CStr(a) == SubSeq(a, 1, strlen(a))

\* argv[2] of a client: a string of 1 to 3 bytes, or of 31
MaxName == 3

RECURSIVE Strings(_)
Strings(n) == IF n = 0 THEN {<<>>} ELSE {Append(u, b) : u \in Strings(n - 1), b \in {97, NL}}

Usernames == UNION {Strings(n) : n \in 1..MaxName} \cup {[k \in 1..(MAX_USERNAME_LEN - 1) |-> 97]}

\* The lines a client sends
Lines == {<<>>, <<104>>, <<104, 105>>}

\* The addresses of the sending client: one has bytes equal to the terminator
CodecAddrs == {AddrList[1], [ip |-> <<10, 0, 0, NL>>, port |-> <<NL, 0>>]}

\* The bytes the sends o hand to the socket fd, in order
RECURSIVE Stream(_, _, _)
Stream(o, fd, k) == IF k > Len(o) THEN <<>> ELSE (IF o[k].op = "send" /\ o[k].fd = fd THEN o[k].msg ELSE <<>>) \o Stream(o, fd, k + 1)

\* Two connections accepted, the sender in slot 0 and the receiver in slot 1.
InitCodec ==
  /\ \E a \in CodecAddrs : clients = [j \in Slots |-> IF j = 0 THEN [Session(0, <<>>) EXCEPT !.addr = a] ELSE IF j = 1 THEN Session(1, <<>>) ELSE EmptySlot]
  /\ open = StdFds \cup {server_fd} \cup {clients[j].fd : j \in Occupied}
  /\ server_running = TRUE
  /\ pc = "poll"
  /\ last = Event("none", -1, <<>>, 0)
  /\ out = <<>>
  /\ ready = {}
  /\ poll_fds = fill_poll_fds(clients)
  /\ saved = NoSaved
  /\ hex = NoHex
  /\ ep = NoEp
  /\ rx = [j \in Slots |-> NoRx]
  /\ feed = NoFeed
  /\ \E u \in Usernames : \E m \in Lines : codec = [NoCodec EXCEPT !.username = u, !.message = m, !.stage = "username"]

\* The server reads the frame the sender wrote; what it sends to the receiver is on
\* its way, with the fields the server put in it.
Relay(frame, fields, stage) ==
  /\ pc = "poll"
  /\ \E rd \in {[kind |-> "data", data |-> frame]} : \E w \in Handled(0, rd) :
        /\ Commit(w)
        /\ last' = Event("read", 0, rd, read(rd, read_count(clients[0])))
        /\ \E bytes \in {Stream(w.out, clients[1].fd, 1)} :
              codec' = [codec EXCEPT !.stage = stage, !.stream = @ \o bytes, !.sent = IF bytes = <<>> THEN @ ELSE Append(@, fields),
                                     !.put = IF frame[1] = MSG_TYPE_USERNAME THEN [type |-> MSG_TYPE_USERNAME, username |-> codec.username] ELSE @,
                                     !.got = IF frame[1] # MSG_TYPE_USERNAME THEN @
                                             ELSE IF w.clients[0].has_username THEN [type |-> MSG_TYPE_USERNAME, username |-> CStr(w.clients[0].username)]
                                             ELSE [type |-> MSG_TYPE_USERNAME]]
  /\ UNCHANGED <<server_running, rx, feed, ready>>

\* sender_thread registers; the server takes the username out of the frame.
SendUsername ==
  /\ codec.stage = "username"
  /\ Relay(UsernameFrame(codec.username), Fields(MSG_TYPE_JOIN, clients[0].addr, CStr(clients'[0].username), <<>>), "message")

\* sender_thread sends a line.
SendMessage ==
  /\ codec.stage = "message"
  /\ Relay(MessageFrame(codec.message), Fields(MSG_TYPE_CHAT, clients[0].addr, CStr(clients[0].username), codec.message), "end")

\* sender_thread ends.
SendEnd ==
  /\ codec.stage = "end"
  /\ Relay(EndFrame, Fields(MSG_TYPE_DISCONNECT, clients[0].addr, CStr(clients[0].username), <<>>), "done")

\* receiver_thread of the receiver takes the next frame off its socket.
ReceiveFrame ==
  /\ codec.stream # <<>>
  /\ \E d \in {receiver_thread(codec.stream)} :
        codec' = [codec EXCEPT !.stream = d.rest, !.sent = Tail(@), !.put = Head(codec.sent), !.got = d.fields]
  /\ UNCHANGED <<clients, open, server_running, pc, last, out, rx, feed, ready, poll_fds, saved, hex, ep>>

\* A client that registers, sends a line and ends, and a client that receives.
NextCodec == SendUsername \/ SendMessage \/ SendEnd \/ ReceiveFrame

SpecCodec == InitCodec /\ [][NextCodec]_vars

(* --------------------------- sends that fail ---------------------------- *)

\* The bytes a socket takes of a frame before send() fails, when it takes some
PartLen == 3

\* What the socket of a recipient does with the sends of one handler: it takes
\* them, it would block after PartLen bytes, or the connection is broken.
Conditions == {[errno |-> "none", after |-> 0], [errno |-> "EAGAIN", after |-> PartLen], [errno |-> "EPIPE", after |-> 0]}

\* The sockets of a handler: all take the sends but one at most, of a session of the table.
Nets == {[Sound EXCEPT ![clients[j].fd] = c] : j \in Occupied, c \in Conditions}

\* An iteration in which poll() reports slot i, with sockets that may refuse the sends.
HandleSend ==
  /\ pc = "poll"
  /\ server_running
  /\ \E i \in Occupied : \E rd \in Reads(i, OrderChunks, Partials) : \E net \in Nets : \E w \in {handle_client_data([World(FALSE) EXCEPT !.net = net], i, rd)} :
        Commit(w) /\ last' = Event("read", i, rd, read(rd, read_count(clients[i])))
  /\ UNCHANGED <<server_running, ready>>
  /\ UNCHANGED peers

\* The server and recipients whose sockets may refuse the sends.
NextSend == AcceptClient \/ HandleSend

SpecSend == Init /\ [][NextSend]_vars

(* ------------------------------- shutdown ------------------------------- *)

\* The loop of main() step by step.  pc is "poll" inside poll(), "dispatch" while
\* the iteration looks at the entries poll() reported, "test" at the test of the
\* while loop, "done" once main() has returned.

\* What the peers send here: a registration, a chat, a disconnect with a chat behind it.
DownChunks == { RegA, ChatH, Disc \o ChatH }

\* handle_shutdown, on SIGINT or SIGTERM, wherever main() is
HandleShutdown ==
  /\ pc \in {"poll", "dispatch", "test"}
  /\ server_running
  /\ server_running' = FALSE
  /\ UNCHANGED <<clients, open, pc, last, out, ready, poll_fds, saved, hex, ep>>
  /\ UNCHANGED peers

\* handle_shutdown calls log_message before it sets the flag.  When the signal
\* comes while a handler of the iteration is itself inside log_message, the call
\* is undefined: it can return, which is HandleShutdown, or wait for ever for a
\* lock the interrupted call holds, and the flag is never set.
HandleShutdownInLog ==
  /\ pc = "dispatch"
  /\ server_running
  /\ pc' = "hung"
  /\ UNCHANGED <<clients, open, server_running, last, out, ready, poll_fds, saved, hex, ep>>
  /\ UNCHANGED peers

\* A loop that goes on whatever the flag is.
LoopTestBlind ==
  /\ pc = "test"
  /\ pc' = "poll"
  /\ poll_fds' = fill_poll_fds(clients)
  /\ UNCHANGED <<saved, hex, ep>>
  /\ UNCHANGED <<clients, open, server_running, last, out, ready>>
  /\ UNCHANGED peers

\* A loop that hands poll() the array of the iteration before.
LoopTestStale ==
  /\ pc = "test"
  /\ server_running
  /\ pc' = "poll"
  /\ UNCHANGED <<clients, open, server_running, last, out, ready, poll_fds, saved, hex, ep>>
  /\ UNCHANGED peers

\* while (server_running): the test passes, main() copies the descriptors of the
\* table into poll_fds and calls poll()
LoopTest ==
  /\ pc = "test"
  /\ server_running
  /\ pc' = "poll"
  /\ poll_fds' = fill_poll_fds(clients)
  /\ UNCHANGED <<saved, hex, ep>>
  /\ UNCHANGED <<clients, open, server_running, last, out, ready>>
  /\ UNCHANGED peers

\* poll() returns 0 after its 1000 ms, or -1 with EINTR: continue
PollNothing ==
  /\ pc = "poll"
  /\ pc' = "test"
  /\ UNCHANGED <<clients, open, server_running, last, out, ready, poll_fds, saved, hex, ep>>
  /\ UNCHANGED peers

\* poll() reports some of the entries it was given; it passes over those whose
\* descriptor is negative.
Poll ==
  /\ pc = "poll"
  /\ \E r \in SUBSET {e \in DOMAIN poll_fds : poll_fds[e] >= 0} : r # {} /\ ready' = r
  /\ pc' = "dispatch"
  /\ UNCHANGED <<clients, open, server_running, last, out, poll_fds, saved, hex, ep>>
  /\ UNCHANGED peers

\* The entry the iteration looks at next: the listening socket first, then the slots in order.
NextEntry == CHOOSE e \in ready : \A x \in ready : e <= x

\* After a handler of the iteration: on to the next entry, or back to the test.
Resume(w) ==
  /\ clients' = w.clients
  /\ out' = w.out
  /\ open' = IF w.aborted THEN {} ELSE w.open
  /\ ready' = ready \ {NextEntry}
  /\ pc' = IF w.aborted THEN "aborted" ELSE IF ready \ {NextEntry} = {} THEN "test" ELSE "dispatch"
  /\ UNCHANGED <<poll_fds, saved, hex, ep>>

\* if (poll_fds[0].revents & POLLIN) accept_client(server_fd)
DispatchAccept ==
  /\ pc = "dispatch"
  /\ NextEntry = 0
  /\ \E acc \in Accepts : \E w \in {accept_client(World(FALSE), acc)} : Resume(w) /\ last' = Event("accept", -1, acc, 0)
  /\ UNCHANGED server_running
  /\ UNCHANGED peers

\* if (poll_fds[i + 1].revents & (POLLIN | POLLHUP | POLLERR)) if (clients[i].fd != -1) handle_client_data(&clients[i])
DispatchClient ==
  /\ pc = "dispatch"
  /\ NextEntry > 0
  /\ \E i \in {NextEntry - 1} :
        IF clients[i].fd # -1
        THEN \E rd \in Reads(i, DownChunks, Partials) : \E w \in Handled(i, rd) : Resume(w) /\ last' = Event("read", i, rd, read(rd, read_count(clients[i])))
        ELSE Resume(World(FALSE)) /\ last' = Event("none", i, <<>>, 0)
  /\ UNCHANGED server_running
  /\ UNCHANGED peers

RECURSIVE close_all(_, _)
close_all(w, i) == IF i >= max_clients THEN w ELSE close_all(IF w.clients[i].fd # -1 THEN [w EXCEPT !.out = Append(@, Ev("close", w.clients[i].fd, <<>>)), !.open = @ \ {w.clients[i].fd}] ELSE w, i + 1)

\* The test of the while loop fails: close every client socket and the listening
\* socket, and return.
Cleanup ==
  /\ pc = "test"
  /\ ~server_running
  /\ \E w \in {close_all(World(FALSE), 0)} :
        /\ out' = Append(w.out, Ev("close", server_fd, <<>>))
        /\ open' = w.open \ {server_fd}
  /\ pc' = "done"
  /\ last' = Event("cleanup", -1, <<>>, 0)
  /\ UNCHANGED <<clients, server_running, ready, poll_fds, saved, hex, ep>>
  /\ UNCHANGED peers

\* What main() does by itself
LoopStep == LoopTest \/ PollNothing \/ Poll \/ DispatchAccept \/ DispatchClient \/ Cleanup

\* The server with its shutdown.
NextDown == LoopStep \/ HandleShutdown \/ HandleShutdownInLog

SpecDown == Init /\ [][NextDown]_vars

\* A step of the dispatch, whatever its handler does: the iteration has looked
\* at the next entry.  DispatchAccept and DispatchClient are such steps, and one of
\* them can be taken whenever pc is "dispatch".
Dispatched ==
  /\ pc = "dispatch"
  /\ ready' = ready \ {NextEntry}
  /\ pc' = IF ready \ {NextEntry} = {} THEN "test" ELSE "dispatch"

\* main() goes on by itself: poll() returns within its 1000 ms at the latest, the
\* reads and sends of the handlers never block, so the dispatch goes on to its
\* next entry, and nothing else in the loop waits.  Signals and peers are under
\* no obligation.
SpecDownFair == SpecDown /\ WF_vars(LoopTest \/ PollNothing \/ Poll \/ Cleanup) /\ WF_<<pc, ready>>(Dispatched)

(* ------------------------- properties of the event loop ----------------- *)

\* The buffer of slot i once the bytes of the step's read are appended.
Arrived(i) == clients[i].buf \o last'.rd.data

\* The step is a read of bytes on slot i.
ReadOn(i) == last'.op = "read" /\ last'.slot = i /\ last'.rd.kind = "data"

\* The bytes f are exactly one frame, of the given type.
OneFrame(f, type) == Len(f) <= BUF_SIZE /\ f[1] = type /\ memchr(f) = Len(f)

\* How many sends to descriptor fd the calls o hold.
SendsTo(o, fd) == Cardinality({k \in 1..Len(o) : o[k].op = "send" /\ o[k].fd = fd})

\* The other slots are as they were, and slot i too but for its emptied buffer.
OnlyConsumed(i) == clients' = [clients EXCEPT ![i].buf = <<>>] /\ open' = open

UnregisteredChatIgnored ==
  [][\A i \in Slots : ReadOn(i) => \A f \in {Arrived(i)} : (OneFrame(f, MSG_TYPE_CHAT) /\ ~clients[i].has_username) =>
        out' = <<>> /\ OnlyConsumed(i) /\ pc' = pc]_vars

\* A session without username has sent a chat next to a Registered one: nothing went out.
UnregisteredChatSeen ==
  /\ last.op = "read" /\ last.rd.data = ChatH
  /\ clients[last.slot].fd # -1 /\ ~clients[last.slot].has_username /\ clients[last.slot].buf = <<>>
  /\ \E j \in Occupied : clients[j].has_username
  /\ out = <<>>

\* C3: a registration frame from a Registered session changes neither its username
\* nor its state and announces nothing; and a session that stays Registered over a
\* step keeps its username, so a username is set once in the life of a session.
SecondRegistrationIgnored ==
  [][\A i \in Slots :
        /\ (clients[i].has_username /\ ReadOn(i)) => \A f \in {Arrived(i)} : OneFrame(f, MSG_TYPE_USERNAME) => (out' = <<>> /\ OnlyConsumed(i))
        /\ (clients[i].has_username /\ clients'[i].has_username) => clients'[i].username = clients[i].username]_vars

\* The session named "a" has sent a registration frame for another name and kept its own.
SecondRegistrationSeen ==
  /\ last.op = "read" /\ last.rd.data = RegShort
  /\ clients[last.slot].has_username /\ clients[last.slot].username[1] = 97
  /\ out = <<>>

\* The registration frame [3][n][n bytes]\n with n in 1..31
WellFormedRegistration(f) == Len(f) > 2 /\ f[2] \in 1..(MAX_USERNAME_LEN - 1) /\ Len(f) = f[2] + 3

\* The Join frame for the name of registration frame f and address addr
JoinFor(addr, f) == <<MSG_TYPE_JOIN>> \o addr.ip \o addr.port \o <<f[2]>> \o SubSeq(f, 3, 2 + f[2]) \o <<NL>>

OrderKept ==
  \A j \in Slots : \A a \in Addrs :
     rx[j][a] \in { <<>>, <<MSG_TYPE_JOIN>>, <<MSG_TYPE_CHAT>>, <<MSG_TYPE_DISCONNECT>>,
                    <<MSG_TYPE_JOIN, MSG_TYPE_CHAT>>, <<MSG_TYPE_JOIN, MSG_TYPE_DISCONNECT>>, <<MSG_TYPE_CHAT, MSG_TYPE_DISCONNECT>>,
                    <<MSG_TYPE_JOIN, MSG_TYPE_CHAT, MSG_TYPE_DISCONNECT>> }

\* A peer has received the Join, a Chat and now the Disconnect of another session.
OrderSeen ==
  \E j \in Occupied : \E a \in Addrs :
     /\ a # clients[j].addr
     /\ rx[j][a] = <<MSG_TYPE_JOIN, MSG_TYPE_CHAT, MSG_TYPE_DISCONNECT>>
     /\ last.op = "read" /\ last.rd.kind = "data" /\ last.rd.data = Disc \o ChatH

\* C6: a connection accepted while every slot is occupied is closed at once and
\* placed nowhere: the table and the open descriptors are as before; no send ever
\* goes to a descriptor that is not in the table; and the occupied slots are never
\* more than max_clients.
FullTableRejects ==
  /\ [][/\ (last'.op = "accept" /\ last'.rd.ok /\ Occupied = Slots) =>
              /\ clients' = clients /\ open' = open
              /\ Len(out') = 2 /\ out'[1].op = "accept" /\ out'[2].op = "close"
              /\ out'[2].fd = out'[1].fd /\ out'[1].fd \notin open
         /\ \A k \in 1..Len(out') : out'[k].op = "send" => \E j \in Occupied : out'[k].fd = clients[j].fd]_vars
  /\ [](Cardinality(Occupied) <= max_clients /\ Cardinality({clients[j].fd : j \in Occupied}) <= max_clients)

\* A connection that accept() and set_nonblocking() took has just been closed, the table being full.
FullTableSeen ==
  /\ last.op = "accept" /\ last.rd.ok /\ last.rd.nonblock
  /\ Occupied = Slots
  /\ Len(out) = 2 /\ out[2].op = "close" /\ out[2].fd \notin open

\* accept() and set_nonblocking() succeed
GoodAccept == [ok |-> TRUE, nonblock |-> TRUE, addr |-> NextAddr]

\* C7: a read that brings the buffer of a session to BUF_SIZE bytes with no
\* terminator closes the session within that handler and leaves its slot empty;
\* the next accept finds a slot, this one when no lower slot is empty.
OverflowCloses ==
  [][\A i \in Slots : ReadOn(i) => \A f \in {Arrived(i)} : (Len(f) >= BUF_SIZE /\ \A k \in 1..BUF_SIZE : f[k] # NL) =>
              /\ clients'[i].fd = -1 /\ clients'[i].buf = <<>> /\ ~clients'[i].has_username
              /\ out'[1] = Ev("close", clients[i].fd, <<>>) /\ clients[i].fd \notin open'
              /\ free_slot(clients') \in 0..i
              /\ (accept_client(World(FALSE), GoodAccept).clients[free_slot(clients)].fd # -1)']_vars

\* A session has been closed on a read of BUF_SIZE bytes without terminator.
OverflowSeen ==
  /\ last.op = "read" /\ last.rd.data = Filler(BUF_SIZE)
  /\ clients[last.slot].fd = -1 /\ clients[last.slot].buf = <<>>
  /\ Len(out) > 0 /\ out[1].op = "close"

\* C9: a frame that arrives in pieces is processed in the read that brings its
\* terminator and not before: until then the reads only fill the buffer of the
\* sender, and after it the table, the system calls and the state of the process
\* are those of a single read of the whole frame.
FragmentationInvariant ==
  feed.frame # <<>> =>
    /\ feed.pos < Len(feed.frame) =>
          /\ clients = [feed.start EXCEPT ![0].buf = SubSeq(feed.frame, 1, feed.pos)]
          /\ open = feed.fds /\ pc = "poll"
          /\ feed.pos > 0 => out = <<>>
    /\ feed.pos = Len(feed.frame) =>
          \E w \in HandledFrom(feed.start, feed.fds, 0, [kind |-> "data", data |-> feed.frame]) :
             /\ clients = w.clients /\ out = w.out
             /\ pc = (IF w.aborted THEN "aborted" ELSE "poll")
             /\ open = (IF w.aborted THEN {} ELSE w.open)

\* A registration frame has arrived in several reads and its Join has been sent.
FragmentedSeen ==
  /\ feed.frame = RegAl /\ feed.pos = Len(feed.frame)
  /\ last.op = "read" /\ Len(last.rd.data) < Len(feed.frame) - 1
  /\ Len(out) > 1 /\ out[1].msg[1] = MSG_TYPE_JOIN

\* C10: what is taken out of a frame is what was put in, for the four kinds: the
\* username the server stores from a registration frame is the client's, and the
\* address, username and message the receiving client reads from a Join, Chat or
\* Disconnect frame are those the server put in.
RoundTrip == codec.got = codec.put

\* C8: the buffer of every session holds between 0 and BUF_SIZE bytes in every
\* state, and no read takes more bytes than the buffer has room for, whatever the
\* peer has sent.
BufferBounded ==
  /\ [](\A i \in Slots : Len(clients[i].buf) \in 0..BUF_SIZE)
  /\ [][\A i \in Slots : ReadOn(i) => Len(clients[i].buf) + last'.num_read <= BUF_SIZE]_vars

\* A read has taken BUF_SIZE - 1 of the BUF_SIZE bytes a peer had sent: the room
\* the buffer had.
BufferReadCut ==
  /\ last.op = "read" /\ last.rd.kind = "data"
  /\ Len(last.rd.data) = BUF_SIZE /\ last.num_read = BUF_SIZE - 1

(* ------------------------------- teardown -------------------------------- *)

\* The position in the calls o of the close of descriptor fd, 0 when there is none.
CloseOf(o, fd) == FirstOf({k \in 1..Len(o) : o[k].op = "close" /\ o[k].fd = fd})

\* The Disconnect frame for the address addr and the C string in username
DisconnectFor(addr, username) == <<MSG_TYPE_DISCONNECT>> \o addr.ip \o addr.port \o <<strlen(username)>> \o SubSeq(username, 1, strlen(username)) \o <<NL>>

\* The slots occupied after the step
Remaining == {j \in Slots : clients'[j].fd # -1}

\* Slot i is closed by the step.
ClosedBy(i) == clients[i].fd # -1 /\ clients'[i].fd = -1

\* The session of descriptor fd has a username when the call at position c of o is
\* made: it had one before the handler, or the handler has sent its Join.
RegisteredAt(i, o, c) == clients[i].has_username \/ \E k \in 1..(c - 1) : o[k].op = "send" /\ o[k].fd = clients[i].fd /\ o[k].msg[1] = MSG_TYPE_JOIN

\* C11: the handler that closes a session does nothing after the close but send
\* one Disconnect frame, with the address accept() gave the session and its
\* username, to each session that remains occupied, and this if the session had a
\* username; if it had none, the close is the last call the handler makes.
TeardownNotifies ==
  [][\A i \in Slots : ClosedBy(i) => \A o \in {out'} : \A c \in {CloseOf(o, clients[i].fd)} :
        /\ c > 0
        /\ RegisteredAt(i, o, c) =>
              /\ Len(o) = c + Cardinality(Remaining)
              /\ \A j \in Remaining : \E k \in (c + 1)..Len(o) : o[k] = Ev("send", clients'[j].fd, DisconnectFor(clients[i].addr, clients'[i].username))
        /\ ~RegisteredAt(i, o, c) => Len(o) = c]_vars

\* A Registered session has reached the end of its stream and the session that
\* remains has been sent its Disconnect frame.
TeardownNotified ==
  /\ last.op = "read" /\ last.rd.kind = "eof" /\ clients[last.slot].fd = -1
  /\ Cardinality(Occupied) = 1
  /\ Len(out) = 2 /\ out[1].op = "close"
  /\ \E j \in Occupied : out[2].op = "send" /\ out[2].fd = clients[j].fd /\ out[2].msg = DisconnectFor(clients[last.slot].addr, clients[last.slot].username) /\ Len(out[2].msg) > 9

\* The descriptors the process holds after the calls o[k..], from the set fds; ok
\* tells that every accept returned a descriptor it did not hold and every close
\* was of a descriptor it held.
RECURSIVE Held(_, _, _)
Held(fds, o, k) ==
  IF k > Len(o) THEN [fds |-> fds, ok |-> TRUE]
  ELSE IF o[k].op = "accept" THEN (IF o[k].fd \in fds THEN [fds |-> fds, ok |-> FALSE] ELSE Held(fds \cup {o[k].fd}, o, k + 1))
  ELSE IF o[k].op = "close" THEN (IF o[k].fd \notin fds THEN [fds |-> fds, ok |-> FALSE] ELSE Held(fds \ {o[k].fd}, o, k + 1))
  ELSE Held(fds, o, k + 1)

\* The descriptors of the table
TableFds == {clients[i].fd : i \in Occupied}

\* C12: every close the server makes is of a descriptor it holds at that moment, so
\* none is closed twice; while the loop runs the descriptors it holds are the
\* listening socket and one for each occupied slot, so a rejected connection is
\* closed in the handler that accepted it; and once main() has returned after a
\* shutdown it holds none of them.
ClosedOnce ==
  /\ [][last' # last => \A h \in {Held(open, out', 1)} : h.ok /\ h.fds = open']_vars
  /\ [](pc \in {"poll", "dispatch", "test"} => (open = StdFds \cup {server_fd} \cup TableFds /\ Cardinality(TableFds) = Cardinality(Occupied)))
  /\ [](pc = "done" => open = StdFds)

\* main() has returned after a shutdown with every slot occupied: each of their
\* sockets was closed, then the listening socket.
ClosedOnceSeen ==
  /\ pc = "done" /\ Occupied = Slots
  /\ Len(out) = max_clients + 1 /\ \A k \in 1..Len(out) : out[k].op = "close"
  /\ \A i \in Slots : \E k \in 1..max_clients : out[k].fd = clients[i].fd
  /\ open = StdFds

\* C13: the handler that closes a session makes no call after the close but the
\* sends of its Disconnect frame, and leaves its buffer empty; when the frame that
\* closes is the first of the bytes, the table, the calls and the descriptors are
\* those of a read that ends with that frame, whatever follows it; and an empty
\* slot holds no byte and no username flag, so that the session a later accept
\* puts in the slot starts from an empty buffer.
ClosedIsFinal ==
  /\ [][\A i \in Slots :
          /\ ClosedBy(i) => \A o \in {out'} : \A c \in {CloseOf(o, clients[i].fd)} :
                /\ \A k \in (c + 1)..Len(o) : o[k].op = "send" /\ o[k].msg[1] = MSG_TYPE_DISCONNECT
                /\ clients'[i].buf = <<>>
          /\ ReadOn(i) => \A f \in {Arrived(i)} : \A n \in {memchr(f)} : (n # 0 /\ f[1] = MSG_TYPE_DISCONNECT) =>
                \E w \in HandledFrom(clients, open, i, [kind |-> "data", data |-> SubSeq(f, Len(clients[i].buf) + 1, n)]) :
                   clients' = w.clients /\ out' = w.out /\ open' = w.open
          /\ (clients[i].fd = -1 /\ clients'[i].fd # -1) => (clients'[i].buf = <<>> /\ ~clients'[i].has_username)]_vars
  /\ [](\A i \in Slots : clients[i].fd = -1 => (clients[i].buf = <<>> /\ ~clients[i].has_username))

\* A Registered session has sent a Disconnect frame and a Chat frame in one read,
\* next to another Registered session: it was closed and the other was sent the
\* Disconnect frame and nothing else.
ClosedIsFinalSeen ==
  /\ last.op = "read" /\ last.rd.data = Disc \o ChatH
  /\ clients[last.slot].fd = -1 /\ clients[last.slot].buf = <<>>
  /\ \E j \in Occupied : clients[j].has_username /\ out = <<out[1], Ev("send", clients[j].fd, DisconnectFor(clients[last.slot].addr, clients[last.slot].username))>>
  /\ out[1].op = "close"

\* The bytes f begin with a whole frame of the given type.
FirstFrame(f, type) == f[1] = type /\ memchr(f) # 0

\* C14: a Disconnect frame from a session with no username leaves the session
\* open and without username, and sends nothing.
UnregisteredDisconnectIgnored ==
  [][\A i \in Slots : ReadOn(i) => \A f \in {Arrived(i)} : (FirstFrame(f, MSG_TYPE_DISCONNECT) /\ ~clients[i].has_username) =>
        /\ clients'[i].fd = clients[i].fd /\ clients[i].fd \in open'
        /\ ~clients'[i].has_username
        /\ \A k \in 1..Len(out') : out'[k].op # "send"]_vars

\* C15: every send of a Chat frame goes to the socket of a session that has a
\* username when the frame is sent: one that had it before the handler, or the
\* sender itself.
ChatOnlyToRegistered ==
  [][\A k \in 1..Len(out') : (last'.op = "read" /\ out'[k].op = "send" /\ out'[k].msg[1] = MSG_TYPE_CHAT) =>
        \E j \in Occupied : clients[j].fd = out'[k].fd /\ (clients[j].has_username \/ j = last'.slot)]_vars

\* C18: a step that closes the session of one slot, on a read error, the end of
\* the stream, a full buffer or a Disconnect frame, leaves every other slot as it
\* was, descriptor, address, username, flag and buffer, closes no other
\* descriptor, and leaves the loop running.
TeardownIsolated ==
  [][\A i \in Slots : ClosedBy(i) =>
        /\ \A j \in Slots \ {i} : clients'[j] = clients[j]
        /\ open' = open \ {clients[i].fd}
        /\ pc' = "poll" /\ server_running']_vars

\* A session has been closed on a read error next to a Registered session that
\* had a byte in its buffer, and has it still.
TeardownIsolatedSeen ==
  /\ last.op = "read" /\ last.rd.kind = "error" /\ clients[last.slot].fd = -1
  /\ \E j \in Occupied : clients[j].has_username /\ clients[j].buf = <<0>> /\ clients[j].fd \in open
  /\ pc = "poll" /\ server_running

\* C19: a registration frame that is not well formed, from a session with no
\* username, closes the session.
MalformedRegistrationCloses ==
  [][\A i \in Slots : (ReadOn(i) /\ ~clients[i].has_username) => \A f \in {Arrived(i)} : (OneFrame(f, MSG_TYPE_USERNAME) /\ ~WellFormedRegistration(f)) =>
        clients'[i].fd = -1 /\ clients[i].fd \notin open']_vars

(* -------------------------------- shutdown ------------------------------- *)

\* C20: once the flag is set, main() returns; until then it begins no new poll(),
\* each step of the iteration under way takes one entry off those poll() had
\* reported, and the test of the loop leads to the cleanup; the cleanup closes the
\* socket of every occupied slot, once, and then the listening socket, and leaves
\* no descriptor of the server open; after it nothing is accepted or read.
ShutdownCompletes ==
  /\ (~server_running ~> pc = "done")
  /\ [][~server_running =>
          /\ pc' = "poll" => pc = "poll"
          /\ pc = "dispatch" => (ready' # ready /\ ready' \subseteq ready)
          /\ pc = "test" => pc' = "done"
          /\ pc' = "done" =>
                /\ Len(out') = Cardinality(Occupied) + 1
                /\ \A i \in Occupied : SendsTo(out', clients[i].fd) = 0 /\ Cardinality({k \in 1..Len(out') : out'[k] = Ev("close", clients[i].fd, <<>>)}) = 1
                /\ out'[Len(out')] = Ev("close", server_fd, <<>>)
                /\ open' = StdFds]_vars
  /\ [][pc = "done" => pc' = "done" /\ last' = last /\ clients' = clients /\ open' = open]_vars

\* main() has returned after a signal that came with one session in the table:
\* its socket and the listening socket were closed.
ShutdownSeen ==
  /\ pc = "done" /\ ~server_running /\ last.op = "cleanup"
  /\ Cardinality(Occupied) = 1
  /\ \E i \in Occupied : out = <<Ev("close", clients[i].fd, <<>>), Ev("close", server_fd, <<>>)>>
  /\ open = StdFds

(* --------------------------------- sends --------------------------------- *)

\* The bytes the socket fd took of the calls o[k..]
RECURSIVE Taken(_, _, _)
Taken(o, fd, k) ==
  IF k > Len(o) THEN <<>>
  ELSE (IF o[k].fd # fd THEN <<>> ELSE IF o[k].op = "send" THEN o[k].msg ELSE IF o[k].op = "short" THEN SubSeq(o[k].msg, 1, o[k].sent) ELSE <<>>) \o Taken(o, fd, k + 1)

\* The frames the calls o[k..] were to hand to the socket fd, one after the other
RECURSIVE Framed(_, _, _)
Framed(o, fd, k) ==
  IF k > Len(o) THEN <<>>
  ELSE (IF o[k].fd = fd /\ o[k].op \in {"send", "short"} THEN o[k].msg ELSE <<>>) \o Framed(o, fd, k + 1)

\* C16: a socket that would block makes the server lose no byte: unless a send to
\* it failed for another reason, the bytes a socket took in a handler are the
\* whole frames the handler broadcast to it, one after the other.
WouldBlockRetried ==
  [][\A fd \in ClientFds : \A o \in {out'} : (\A k \in 1..Len(o) : (o[k].op = "short" /\ o[k].fd = fd) => o[k].errno = "EAGAIN") =>
        Taken(o, fd, 1) = Framed(o, fd, 1)]_vars

\* The calls o with every send that failed taken for one that went through
Attempts(o) == [k \in 1..Len(o) |-> IF o[k].op = "short" THEN Ev("send", o[k].fd, o[k].msg) ELSE o[k]]

\* C17: whatever sends fail in a handler, the handler makes the calls, in the
\* order and with the frames, that it makes when none fails, so each frame is
\* still sent to every other occupied session; and it leaves the table and the
\* descriptors as it does when none fails: a failed send closes no session and
\* changes none.
SendFailureIsolated ==
  [][last'.op = "read" => \E w \in Handled(last'.slot, last'.rd) :
        /\ Attempts(out') = w.out
        /\ clients' = w.clients /\ open' = w.open /\ pc' = "poll"]_vars

\* The send of a Chat frame to the first of two recipients has failed, and the
\* second has been sent the whole frame; both sessions are as they were.
SendFailureSeen ==
  /\ last.op = "read" /\ last.rd.data = ChatH
  /\ Occupied = Slots /\ \A j \in Occupied : clients[j].has_username /\ clients[j].fd \in open
  /\ Len(out) >= 2 /\ out[1].op = "short" /\ out[1].fd = clients[0].fd /\ out[1].msg[1] = MSG_TYPE_CHAT
  /\ out[2] = Ev("send", clients[1].fd, out[1].msg)

(* ------------------------------ the table -------------------------------- *)

\* C21: the occupied slots hold different descriptors, and each of them is a
\* descriptor the process holds from an accept: open, and neither the listening
\* socket nor one of the standard three.
HandlesDistinct ==
  \A i \in Occupied :
     /\ clients[i].fd \in open \ (StdFds \cup {server_fd})
     /\ \A j \in Occupied \ {i} : clients[j].fd # clients[i].fd

\* Slot 0 has been given the lowest descriptor again: a session with a username
\* held the slot before, the descriptor above it went to slot 1 in the meantime.
HandleReused ==
  /\ last.op = "accept" /\ Len(out) = 1 /\ out[1].fd = server_fd + 1
  /\ clients[0].fd = server_fd + 1 /\ ~clients[0].has_username /\ clients[0].username[1] # 0
  /\ clients[1].fd = server_fd + 2

\* The descriptors poll() looks at: those of the entries that are not negative
Polled == {poll_fds[e] : e \in {e \in DOMAIN poll_fds : poll_fds[e] >= 0}}

\* C22: whenever main() is in poll(), the array it gave holds the listening socket
\* in entry 0 and in entry i + 1 the descriptor of slot i, -1 for an empty slot, so
\* that the descriptors polled are the listening socket and those of the occupied
\* slots; an entry still to be looked at is the listening socket or a slot that
\* holds the descriptor it was polled with; and a read is dispatched to a slot
\* only for its own entry, reported by poll(), the slot being occupied.
PolledSetExact ==
  /\ [](pc = "poll" =>
          /\ poll_fds[0] = server_fd
          /\ \A i \in Slots : poll_fds[i + 1] = clients[i].fd
          /\ Polled = {server_fd} \cup TableFds)
  /\ [](pc = "dispatch" => \A e \in ready \ {0} : poll_fds[e] # -1 /\ clients[e - 1].fd = poll_fds[e])
  /\ [][(pc = "dispatch" /\ ready' # ready /\ last'.op = "read") =>
          /\ last'.slot + 1 \in ready /\ last'.slot + 1 \notin ready'
          /\ clients[last'.slot].fd # -1 /\ clients[last'.slot].fd = poll_fds[last'.slot + 1]]_vars

\* main() is in poll() again after an iteration that read from a session, with a
\* slot occupied and a slot empty: the array holds a descriptor for the one and -1
\* for the other.
PolledSetSeen ==
  /\ pc = "poll" /\ last.op = "read" /\ server_running
  /\ \E i \in Occupied : poll_fds[i + 1] = clients[i].fd /\ poll_fds[i + 1] > server_fd
  /\ \E i \in Slots \ Occupied : poll_fds[i + 1] = -1

----------------------------------------------------------------------------
\* remove_client, statement by statement

\* strncpy(username_copy, cli->username, MAX_USERNAME_LEN): the bytes before the
\* first NUL, then NULs
strncpy(src) == [k \in 1..MAX_USERNAME_LEN |-> IF k <= strlen(src) THEN src[k] ELSE 0]

\* A registration whose username is a, NUL, b
RegNul == <<3, 3, 97, 0, 98, 10>>

TeardownChunks == { RegA, RegShort, ChatH, RegNul \o ChatH }

\* An iteration whose handler does not come to remove_client: a frame is read,
\* or the read would block.
HandleKept ==
  /\ pc = "poll"
  /\ server_running
  /\ \E i \in Occupied : \E rd \in {r \in Reads(i, TeardownChunks, Partials) : r.kind \in {"data", "eagain"}} : \E w \in Handled(i, rd) :
        Commit(w) /\ last' = Event("read", i, rd, read(rd, read_count(clients[i])))
  /\ UNCHANGED <<server_running, ready>>
  /\ UNCHANGED peers

\* read() on slot i returns 0 or fails with another errno than EAGAIN, and
\* handle_client_data calls remove_client, which saves had_username, the address
\* and, of a session that has one, the username (username_copy is not written
\* and not read otherwise).
RemoveEnter ==
  /\ pc = "poll"
  /\ server_running
  /\ \E i \in Occupied : \E rd \in {[kind |-> k, data |-> <<>>] : k \in {"eof", "error"}} :
        /\ saved' = [slot |-> i, had_username |-> clients[i].has_username,
                     username_copy |-> IF clients[i].has_username THEN strncpy(clients[i].username) ELSE ZeroName,
                     addr_copy |-> clients[i].addr]
        /\ last' = Event("read", i, rd, read(rd, read_count(clients[i])))
  /\ out' = <<>>
  /\ pc' = "close"
  /\ UNCHANGED <<clients, open, server_running, ready, poll_fds, hex, ep>>
  /\ UNCHANGED peers

\* close(cli->fd)
RemoveClose ==
  /\ pc = "close"
  /\ out' = Append(out, Ev("close", clients[saved.slot].fd, <<>>))
  /\ open' = open \ {clients[saved.slot].fd}
  /\ pc' = "mark"
  /\ UNCHANGED <<clients, server_running, last, ready, poll_fds, saved, hex, ep>>
  /\ UNCHANGED peers

\* A teardown that leaves the slot as it is.
RemoveMarkSkipped ==
  /\ pc = "mark"
  /\ pc' = "notify"
  /\ UNCHANGED <<clients, open, server_running, last, out, ready, poll_fds, saved, hex, ep>>
  /\ UNCHANGED peers

\* cli->fd = -1; cli->len = 0; cli->has_username = 0
RemoveMark ==
  /\ pc = "mark"
  /\ clients' = [clients EXCEPT ![saved.slot].fd = -1, ![saved.slot].buf = <<>>, ![saved.slot].has_username = FALSE]
  /\ pc' = "notify"
  /\ UNCHANGED <<open, server_running, last, out, ready, poll_fds, saved, hex, ep>>
  /\ UNCHANGED peers

\* if (had_username): the Disconnect frame is built from the copies and handed
\* to broadcast_message; remove_client and the handler return.
RemoveNotify ==
  /\ pc = "notify"
  /\ \E w \in {IF saved.had_username
                THEN broadcast_message([World(FALSE) EXCEPT !.out = out], Header(MSG_TYPE_DISCONNECT, saved.addr_copy, saved.username_copy) \o <<NL>>)
                ELSE [World(FALSE) EXCEPT !.out = out]} :
        /\ clients' = w.clients
        /\ open' = w.open
        /\ out' = w.out
        /\ poll_fds' = fill_poll_fds(w.clients)
  /\ saved' = NoSaved
  /\ pc' = "poll"
  /\ UNCHANGED <<server_running, last, ready, hex, ep>>
  /\ UNCHANGED peers

NextTeardown == AcceptClient \/ HandleKept \/ RemoveEnter \/ RemoveClose \/ RemoveMark \/ RemoveNotify

SpecTeardown == Init /\ [][NextTeardown]_vars

\* C25 as the code has it: in remove_client the socket of the session is closed
\* while the slot still holds its descriptor; the slot is then marked empty,
\* before anything is sent; and the Disconnect frame of a session that had a
\* username is handed to the broadcast last, once to every session that is left
\* and to no other descriptor, before the loop handles another event.
TeardownOrder ==
  /\ [](pc = "mark" => /\ clients[saved.slot].fd # -1 /\ clients[saved.slot].fd \notin open
                       /\ out = <<Ev("close", clients[saved.slot].fd, <<>>)>>)
  /\ [](pc = "notify" => /\ clients[saved.slot].fd = -1 /\ ~clients[saved.slot].has_username /\ clients[saved.slot].buf = <<>>
                         /\ Len(out) = 1 /\ out[1].op = "close" /\ out[1].fd \notin open)
  /\ [][pc = "notify" =>
          /\ pc' = "poll" /\ clients' = clients /\ open' = open /\ last' = last
          /\ SubSeq(out', 1, 1) = out
          /\ Len(out') = 1 + (IF saved.had_username THEN Cardinality(Occupied) ELSE 0)
          /\ \A n \in 2..Len(out') : out'[n].op = "send" /\ out'[n].fd # out[1].fd
                                        /\ out'[n].msg = DisconnectFor(saved.addr_copy, saved.username_copy)
          /\ saved.had_username => \A j \in Occupied : \E n \in 2..Len(out') : out'[n].fd = clients[j].fd]_vars
  /\ [][(pc = "close" \/ pc = "mark") => (last' = last /\ \A j \in Slots : clients'[j].fd \in {-1, clients[j].fd})]_vars

\* The slot of a registered session has been marked empty, its Disconnect frame
\* is still to be sent, and a session is left to send it to.
TeardownOrderSeen == pc = "notify" /\ saved.had_username /\ Occupied # {}

\* C25: from the call of remove_client for a registered session until its
\* Disconnect frame has been handed to the broadcast, the slot is not empty.
TeardownReleasesLast == (pc \in {"close", "mark", "notify"} /\ saved.had_username) => clients[saved.slot].fd # -1

----------------------------------------------------------------------------
\* The life of a session

\* The session of slot i in the table cl: none while the slot is empty (before an
\* accept, or after the close), else registered or not.
SessionState(cl, i) == IF cl[i].fd = -1 THEN "Closed" ELSE IF cl[i].has_username THEN "Registered" ELSE "Unregistered"

\* C23: over an iteration of the loop a registered session stays registered or is
\* closed, an unregistered session stays, registers or is closed, each keeping
\* its descriptor while it lives; and a slot that is empty stays empty unless
\* accept_client puts a new connection in it, unregistered, so that nothing
\* brings a closed session back.
SessionLifecycle ==
  [][\A i \in Slots :
        /\ SessionState(clients, i) = "Registered" =>
              /\ SessionState(clients', i) \in {"Registered", "Closed"}
              /\ SessionState(clients', i) = "Registered" => clients'[i].fd = clients[i].fd
        /\ SessionState(clients, i) = "Unregistered" =>
              /\ SessionState(clients', i) # "Closed" => clients'[i].fd = clients[i].fd
              /\ (last'.op = "read" /\ last'.slot = i) \/ SessionState(clients', i) = "Unregistered"
        /\ SessionState(clients, i) = "Closed" =>
              \/ SessionState(clients', i) = "Closed"
              \/ /\ SessionState(clients', i) = "Unregistered"
                 /\ last'.op = "accept" /\ out' = <<Ev("accept", clients'[i].fd, <<>>)>>
                 /\ clients'[i].buf = <<>>]_vars

\* A registered session has been sent a second registration frame and is still
\* registered under its first name, next to a slot whose session was closed.
SessionLifecycleSeen ==
  /\ last.op = "read" /\ last.rd.data = RegShort /\ out = <<>>
  /\ SessionState(clients, last.slot) = "Registered"
  /\ strlen(clients[last.slot].username) = 1
  /\ \E j \in Slots : SessionState(clients, j) = "Closed" /\ clients[j].username[1] # 0

----------------------------------------------------------------------------
\* Usernames

\* The username field of a frame the server built: [type][ip:4][port:2][len][username]
UsernameField(msg) == SubSeq(msg, 9, 8 + msg[8])

\* C24: no username of a registered session holds the terminator, and so the
\* username field of no Join, Chat or Disconnect frame the server sends does.
UsernameHasNoTerminator ==
  /\ \A i \in Slots : clients[i].has_username => memchr(SubSeq(clients[i].username, 1, strlen(clients[i].username))) = 0
  /\ \A n \in 1..Len(out) :
        (out[n].op = "send" /\ out[n].msg[1] \in {MSG_TYPE_JOIN, MSG_TYPE_CHAT, MSG_TYPE_DISCONNECT}) => memchr(UsernameField(out[n].msg)) = 0

----------------------------------------------------------------------------
\* What closes a registered session

\* One of the whole frames the bytes f begin with is of the given type.
RECURSIVE HasFrame(_, _)
HasFrame(f, type) == memchr(f) # 0 /\ (f[1] = type \/ HasFrame(SubSeq(f, memchr(f) + 1, Len(f)), type))

\* The handler's read on slot i is one that ends a session: it returns 0, it
\* fails with another errno than EAGAIN, or the buffer f it leaves holds a
\* Disconnect frame or is full without a terminator.
Closing(rd, f) ==
  \/ rd.kind \in {"eof", "error"}
  \/ rd.kind = "data" /\ (HasFrame(f, MSG_TYPE_DISCONNECT) \/ (Len(f) = BUF_SIZE /\ memchr(f) = 0))

\* C26: when the read of a handler on a registered session returns 0, fails with
\* another errno than EAGAIN, brings a Disconnect frame or fills the buffer
\* without a terminator, the handler has closed the socket and emptied the slot
\* when it returns.
RegisteredClosedInHandler ==
  [][\A i \in Slots : (last'.op = "read" /\ last'.slot = i /\ clients[i].fd # -1 /\ clients[i].has_username) =>
        \A f \in {clients[i].buf \o SubSeq(last'.rd.data, 1, last'.num_read)} : Closing(last'.rd, f) =>
           /\ clients'[i].fd = -1 /\ ~clients'[i].has_username
           /\ clients[i].fd \notin open'
           /\ CloseOf(out', clients[i].fd) # 0
           /\ pc' = "poll"]_vars

\* A read on a registered session has failed with an errno that is not EAGAIN:
\* the session is closed and the session that is left was sent its Disconnect frame.
RegisteredClosedSeen ==
  /\ last.op = "read" /\ last.rd.kind = "error" /\ clients[last.slot].fd = -1
  /\ Len(out) = 2 /\ out[1].op = "close"
  /\ out[2].op = "send" /\ out[2].msg[1] = MSG_TYPE_DISCONNECT /\ \E j \in Occupied : clients[j].fd = out[2].fd

----------------------------------------------------------------------------
\* An empty table

\* The handler that has just returned closed the session that was left: no slot
\* is occupied any more.
AllGone == last.op = "read" /\ Occupied = {} /\ pc \in {"test", "dispatch"}

\* C27: the server shuts down once all its clients have disconnected, without a
\* signal: in a run in which handle_shutdown is never called, after the last
\* occupied slot has become empty main() leaves the loop and closes the listening
\* socket.
ExitsWhenAllGone == [](server_running /\ pc # "hung") => (AllGone ~> (pc = "done" /\ server_fd \notin open))

----------------------------------------------------------------------------
\* bytes_to_hex

\* The longest input of the calls that are tried
MaxHexLen == 2

\* The bytes the inputs are made of: 00, 0A, 9F, AD, DE
HexBytes == {0, 10, 159, 173, 222}

\* What the memory of str holds before the call
Untouched == 1

\* One digit of the conversion %X, in ASCII: '0'..'9', 'A'..'F'
HexDigitLower(d) == IF d < 10 THEN 48 + d ELSE 87 + d

HexDigit(d) == IF d < 10 THEN 48 + d ELSE 55 + d

\* sprintf(str + i * 2, "%02X", buf[i]): two digits and the NUL sprintf ends its
\* output with
sprintf(str, i, b) == [str EXCEPT ![2 * i + 1] = HexDigit(b \div 16), ![2 * i + 2] = HexDigit(b % 16), ![2 * i + 3] = 0]

\* for (int i = 0; i < buf_size; i++)
RECURSIVE hex_loop(_, _, _, _)
hex_loop(str, buf, buf_size, i) == IF i >= buf_size THEN str ELSE hex_loop(sprintf(str, i, buf[i + 1]), buf, buf_size, i + 1)

bytes_to_hex(h) ==
  IF h.buf.null \/ h.str.null \/ h.buf_size <= 0 \/ h.str_size < h.buf_size * 2 + 1
  THEN [h EXCEPT !.ret = -1, !.stage = "returned"]
  ELSE [h EXCEPT !.str.bytes = [hex_loop(@, h.buf.bytes, h.buf_size, 0) EXCEPT ![h.buf_size * 2 + 1] = 0], !.ret = 0, !.stage = "returned"]

\* The calls that are tried: buf is NULL or points to at least buf_size bytes, str
\* is NULL or points to str_size bytes.
HexArgs ==
  {[buf |-> Ptr(b), buf_size |-> n, str |-> st, str_size |-> sz, ret |-> 0, stage |-> "called"] :
      b \in UNION {[1..l -> HexBytes] : l \in 0..MaxHexLen}, n \in -1..MaxHexLen, st \in {Null}, sz \in 0..(2 * MaxHexLen + 2)}
  \cup {[buf |-> Ptr(b), buf_size |-> n, str |-> Ptr([k \in 1..sz |-> Untouched]), str_size |-> sz, ret |-> 0, stage |-> "called"] :
      b \in UNION {[1..l -> HexBytes] : l \in 0..MaxHexLen}, n \in -1..MaxHexLen, sz \in 0..(2 * MaxHexLen + 2)}
  \cup {[buf |-> Null, buf_size |-> n, str |-> Ptr([k \in 1..sz |-> Untouched]), str_size |-> sz, ret |-> 0, stage |-> "called"] :
      n \in -1..MaxHexLen, sz \in 0..(2 * MaxHexLen + 2)}

InitHex ==
  /\ InitServer
  /\ rx = [j \in Slots |-> NoRx] /\ feed = NoFeed /\ codec = NoCodec
  /\ hex \in {h \in HexArgs : h.buf.null \/ h.buf_size <= Len(h.buf.bytes)}
  /\ ep = NoEp

BytesToHex ==
  /\ hex.stage = "called"
  /\ hex' = bytes_to_hex(hex)
  /\ UNCHANGED <<clients, open, server_running, pc, last, out, ready, poll_fds, saved, ep>>
  /\ UNCHANGED peers

NextHex == BytesToHex

SpecHex == InitHex /\ [][NextHex]_vars

\* The digits of base 16, in upper case
Digits16 == <<48, 49, 50, 51, 52, 53, 54, 55, 56, 57, 65, 66, 67, 68, 69, 70>>

\* C28: with buf and str not NULL, buf_size at least 1 and str_size at least
\* 2 * buf_size + 1, bytes_to_hex returns 0 and leaves in str, for each of the
\* buf_size bytes in turn, its two hexadecimal digits in upper case, the high one
\* first, and then a NUL, the rest of str being as it was; in every other case it
\* returns -1 and str is as it was.
BytesToHexCorrect ==
  [][hex'.stage = "returned" =>
       IF ~hex.buf.null /\ ~hex.str.null /\ hex.buf_size >= 1 /\ hex.str_size >= 2 * hex.buf_size + 1
       THEN /\ hex'.ret = 0
            /\ Len(hex'.str.bytes) = Len(hex.str.bytes)
            /\ \A k \in 1..hex.buf_size :
                  /\ hex'.str.bytes[2 * k - 1] = Digits16[(hex.buf.bytes[k] \div 16) + 1]
                  /\ hex'.str.bytes[2 * k] = Digits16[(hex.buf.bytes[k] % 16) + 1]
            /\ hex'.str.bytes[2 * hex.buf_size + 1] = 0
            /\ \A k \in (2 * hex.buf_size + 2)..Len(hex.str.bytes) : hex'.str.bytes[k] = hex.str.bytes[k]
            /\ hex'.buf = hex.buf
       ELSE hex'.ret = -1 /\ hex'.str = hex.str /\ hex'.buf = hex.buf]_vars

\* The bytes AD DE were converted into a str of 6 bytes: "ADDE", a NUL, and the
\* byte that was there.
BytesToHexSeen ==
  /\ hex.stage = "returned" /\ hex.ret = 0
  /\ hex.buf.bytes = <<173, 222>> /\ hex.buf_size = 2
  /\ hex.str.bytes = <<65, 68, 68, 69, 0, Untouched>>

----------------------------------------------------------------------------
\* The chat frame

\* C29 as the code has it: when the first frame a read completes on a registered
\* session is a Chat frame, the frame sent to every occupied session is the byte
\* 0, the address and port accept() gave the session, the length of its username
\* and the username, and then the bytes of the client's frame after its type byte,
\* terminator included; its last byte is the terminator and the bytes taken from
\* the client's frame hold no other one.
ChatFrameLayout ==
  [][\A i \in Slots : (ReadOn(i) /\ clients[i].has_username) => \A f \in {Arrived(i)} : FirstFrame(f, MSG_TYPE_CHAT) =>
        \A p \in {memchr(f)} : \A u \in {strlen(clients[i].username)} : \A n \in 1..Cardinality(Occupied) :
           /\ out'[n].op = "send"
           /\ out'[n].msg = <<0>> \o clients[i].addr.ip \o clients[i].addr.port \o <<u>> \o SubSeq(clients[i].username, 1, u) \o SubSeq(f, 2, p)
           /\ Len(out'[n].msg) = 1 + 4 + 2 + 1 + u + (p - 1)
           /\ out'[n].msg[Len(out'[n].msg)] = NL
           /\ memchr(SubSeq(out'[n].msg, 9 + u, Len(out'[n].msg))) = p - 1]_vars

\* A registered session has sent the Chat frame 00 68 0A and two sessions were
\* sent its frame, whose address begins with the byte 0A.
ChatFrameSeen ==
  /\ last.op = "read" /\ last.rd.kind = "data" /\ last.rd.data = ChatH
  /\ Len(out) = 2 /\ out[1].msg[1] = MSG_TYPE_CHAT /\ out[2].msg = out[1].msg /\ out[1].fd # out[2].fd
  /\ out[1].msg[2] = NL
  /\ SubSeq(out[1].msg, Len(out[1].msg) - 1, Len(out[1].msg)) = <<104, NL>>

\* C29: every Chat frame the server sends holds exactly one terminator, its last
\* byte.
ChatFrameOneTerminator ==
  \A n \in 1..Len(out) : (out[n].op = "send" /\ out[n].msg[1] = MSG_TYPE_CHAT) => memchr(out[n].msg) = Len(out[n].msg)

----------------------------------------------------------------------------
\* A read that would block

\* C30: a read that fails with EAGAIN or EWOULDBLOCK changes nothing: the session
\* keeps its slot, its descriptor, which stays open, the bytes of its buffer, its
\* username and whether it has one, the other slots are as they were, and the
\* handler makes no call, so nothing is sent.
WouldBlockReadHarmless ==
  [][(last'.op = "read" /\ last'.rd.kind = "eagain") =>
        /\ last'.num_read = -1
        /\ clients[last'.slot].fd # -1 /\ clients[last'.slot].fd \in open'
        /\ clients' = clients
        /\ open' = open
        /\ out' = <<>>]_vars

\* The read on a registered session whose buffer holds the beginning of a frame
\* would block, next to another session.
WouldBlockReadSeen ==
  /\ last.op = "read" /\ last.rd.kind = "eagain" /\ out = <<>>
  /\ clients[last.slot].fd # -1 /\ clients[last.slot].has_username /\ clients[last.slot].buf = <<0>>
  /\ Occupied = Slots

----------------------------------------------------------------------------
\* Slots that are used again

\* A registration as "abc"
RegAbc == <<3, 3, 97, 98, 99, 10>>

ReuseChunks == { RegA, RegAbc, ChatH, <<0>> }

\* An iteration in which poll() reports the listening socket and the connection
\* comes from any address that no live connection has.
AcceptFrom ==
  /\ pc = "poll"
  /\ server_running
  /\ \E a \in Addrs \ {clients[i].addr : i \in Occupied} : \E acc \in {[ok |-> TRUE, nonblock |-> TRUE, addr |-> a]} :
        \E w \in {accept_client(World(FALSE), acc)} : Commit(w) /\ last' = Event("accept", -1, acc, 0)
  /\ UNCHANGED <<server_running, ready>>
  /\ UNCHANGED peers

HandleReuse == Handle(ReuseChunks, Partials) /\ UNCHANGED peers

NextReuse == AcceptFrom \/ HandleReuse

SpecReuse == Init /\ [][NextReuse]_vars

\* The address field of a frame the server built
AddrField(msg) == [ip |-> SubSeq(msg, 2, 5), port |-> SubSeq(msg, 6, 7)]

\* C32: a connection accepted into a slot starts with an empty buffer, without
\* username and with the address accept() gave it, whatever the slot held; a
\* handler of a session that has no username when it returns sends nothing; every
\* frame a handler sends carries the address accept() gave its session and the
\* username that session registered, which for a session that registers in this
\* read with its first frame are the bytes that frame declares; and while a
\* session lives its address and, once registered, its username stay.
ReusedSlotIsFresh ==
  [][\A i \in Slots :
        /\ (clients[i].fd = -1 /\ clients'[i].fd # -1) =>
              /\ last'.op = "accept" /\ clients'[i].addr = last'.rd.addr
              /\ clients'[i].buf = <<>> /\ ~clients'[i].has_username
              /\ out' = <<Ev("accept", clients'[i].fd, <<>>)>>
        /\ (clients[i].fd # -1 /\ clients'[i].fd # -1) =>
              /\ clients'[i].addr = clients[i].addr
              /\ clients[i].has_username => clients'[i].username = clients[i].username
        /\ (last'.op = "read" /\ last'.slot = i) =>
              /\ (~clients[i].has_username /\ ~clients'[i].has_username) => \A n \in 1..Len(out') : out'[n].op # "send"
              /\ \A n \in 1..Len(out') : out'[n].op = "send" =>
                    /\ AddrField(out'[n].msg) = clients[i].addr
                    /\ UsernameField(out'[n].msg) = SubSeq(clients'[i].username, 1, strlen(clients'[i].username))
              /\ (~clients[i].has_username /\ clients'[i].has_username) =>
                    \A f \in {Arrived(i)} : FirstFrame(f, MSG_TYPE_USERNAME) =>
                       SubSeq(clients'[i].username, 1, strlen(clients'[i].username)) = SubSeq(f, 3, 2 + f[2])]_vars

\* A slot whose session was "abc" holds a session that came from another address,
\* registered as "a" and sent a Chat frame: the frame sent carries "a", and the c
\* of the old username is still in the array behind the NUL.
ReusedSlotSeen ==
  /\ last.op = "read" /\ last.rd.kind = "data" /\ last.rd.data = ChatH
  /\ clients[last.slot].has_username
  /\ SubSeq(clients[last.slot].username, 1, 4) = <<97, 0, 99, 0>>
  /\ clients[last.slot].addr = AddrList[3]
  /\ Len(out) >= 1 /\ out[1].op = "send" /\ UsernameField(out[1].msg) = <<97>> /\ AddrField(out[1].msg) = AddrList[3]

----------------------------------------------------------------------------
\* Length fields and terminators

\* The registration frame at the head of f declares a username that reaches to
\* the first terminator of f or over it.
DeclaresOverTerminator(f) ==
  /\ Len(f) >= 2 /\ f[1] = MSG_TYPE_USERNAME /\ f[2] > 0 /\ f[2] < MAX_USERNAME_LEN
  /\ memchr(f) # 0 /\ memchr(f) <= 2 + f[2]

\* C31: when the registration frame a session with no username sends declares
\* more username bytes than there are before the first terminator, the server
\* either waits, keeping every byte in the buffer and doing nothing, or, the
\* declared bytes and the terminator behind them being there, registers the
\* username as declared; it never takes the bytes behind that first terminator
\* for a frame of their own.
LengthFieldRespected ==
  [][\A i \in Slots : (ReadOn(i) /\ ~clients[i].has_username /\ clients[i].fd # -1) => \A f \in {Arrived(i)} : DeclaresOverTerminator(f) =>
        \/ clients'[i].fd = clients[i].fd /\ clients'[i].buf = f /\ ~clients'[i].has_username /\ out' = <<>>
        \/ /\ Len(f) >= 3 + f[2] /\ f[3 + f[2]] = NL
           /\ clients'[i].has_username /\ SubSeq(clients'[i].username, 1, f[2]) = SubSeq(f, 3, 2 + f[2])]_vars

----------------------------------------------------------------------------
\* The array of the chat frame

\* C33: every Chat frame the server assembles fits broadcast_msg: the 8 bytes of
\* the header without the username, the username and the client's frame without
\* its type byte are BUF_SIZE + 8 bytes at most.
ChatFrameFits ==
  \A n \in 1..Len(out) : (out[n].op = "send" /\ out[n].msg[1] = MSG_TYPE_CHAT) => Len(out[n].msg) <= BUF_SIZE + 8

----------------------------------------------------------------------------
\* The buffer between two reads

\* The position of the last terminator of f, 0 when it has none
LastNL(f) == IF \E k \in 1..Len(f) : f[k] = NL THEN CHOOSE k \in 1..Len(f) : f[k] = NL /\ \A j \in (k + 1)..Len(f) : f[j] # NL ELSE 0

\* C34: whenever main() is about to call poll(), the buffer of every occupied
\* slot holds no terminator and fewer than BUF_SIZE bytes; and the buffer a read
\* leaves to a session that stays is what came behind the last terminator of the
\* bytes held and read, in the order they came.
BufferAtRest ==
  /\ [](pc = "poll" => \A i \in Occupied : memchr(clients[i].buf) = 0 /\ Len(clients[i].buf) < BUF_SIZE)
  /\ [][\A i \in Slots : (ReadOn(i) /\ clients[i].fd # -1 /\ clients'[i].fd # -1) =>
          \A f \in {clients[i].buf \o SubSeq(last'.rd.data, 1, last'.num_read)} :
             clients'[i].buf = SubSeq(f, LastNL(f) + 1, Len(f))]_vars

\* A read brought a registration frame, a Chat frame and the first byte of a
\* third frame: both frames were acted on and the byte is what the buffer holds.
BufferAtRestSeen ==
  /\ pc = "poll" /\ last.op = "read" /\ last.rd.kind = "data" /\ last.rd.data = RegA \o ChatH \o <<0>>
  /\ clients[last.slot].fd # -1 /\ clients[last.slot].buf = <<0>>
  /\ Len(out) >= 2 /\ out[1].msg[1] = MSG_TYPE_JOIN /\ out[Len(out)].msg[1] = MSG_TYPE_CHAT

----------------------------------------------------------------------------
\* One Join and one Disconnect for a session

\* Where a list of effects sends a frame of the type
SendsOf(o, type) == {n \in 1..Len(o) : o[n].op = "send" /\ o[n].msg[1] = type}

\* C35: a Join is sent only by the handler in which a session that had no
\* username gets one, a Disconnect only by the handler in which a session ends,
\* and only for a session whose Join was sent, in an earlier handler or earlier
\* in this one; no handler sends either twice to a descriptor; both carry the
\* address the session was accepted with and the username it registered, neither
\* of which changes, nor does the session lose its username, while it lives.
OneJoinOneDisconnect ==
  [][/\ last'.op # "read" => (SendsOf(out', MSG_TYPE_JOIN) = {} /\ SendsOf(out', MSG_TYPE_DISCONNECT) = {})
     /\ \A i \in Slots :
        /\ (clients[i].fd # -1 /\ clients'[i].fd # -1 /\ clients[i].has_username) =>
              (clients'[i].has_username /\ clients'[i].username = clients[i].username /\ clients'[i].addr = clients[i].addr)
        /\ (last'.op = "read" /\ last'.slot = i) => \A J \in {SendsOf(out', MSG_TYPE_JOIN)} : \A D \in {SendsOf(out', MSG_TYPE_DISCONNECT)} :
              /\ \A n, k \in J : n # k => out'[n].fd # out'[k].fd
              /\ \A n, k \in D : n # k => out'[n].fd # out'[k].fd
              /\ J # {} => (clients[i].fd # -1 /\ ~clients[i].has_username)
              /\ D # {} => /\ clients[i].fd # -1 /\ clients'[i].fd = -1
                            /\ (clients[i].has_username \/ (J # {} /\ \A n \in J : \A k \in D : n < k))
              /\ \A n \in J \cup D :
                    /\ AddrField(out'[n].msg) = clients[i].addr
                    /\ UsernameField(out'[n].msg) = SubSeq(clients'[i].username, 1, strlen(clients'[i].username))]_vars

\* One read brought a registration and a Disconnect frame while another session
\* was registered: the Join went out before the Disconnect, with the same address
\* and username.
OneJoinOneDisconnectSeen ==
  /\ last.op = "read" /\ last.rd.kind = "data" /\ last.rd.data = RegA \o Disc /\ clients[last.slot].fd = -1
  /\ \E n, k \in 1..Len(out) : /\ n < k /\ out[n].op = "send" /\ out[k].op = "send" /\ out[n].fd = out[k].fd
                                /\ out[n].msg[1] = MSG_TYPE_JOIN /\ out[k].msg[1] = MSG_TYPE_DISCONNECT
                                /\ SubSeq(out[n].msg, 2, Len(out[n].msg)) = SubSeq(out[k].msg, 2, Len(out[k].msg))
                                /\ UsernameField(out[k].msg) = <<97>>

----------------------------------------------------------------------------
\* The username a session declares and the username its frames carry

\* The bytes f begin with a registration frame whose terminator stands where the
\* declared length has it.
DeclaredRegistration(f) ==
  /\ Len(f) >= 2 /\ f[1] = MSG_TYPE_USERNAME /\ f[2] > 0 /\ f[2] < MAX_USERNAME_LEN
  /\ memchr(f) = 3 + f[2]

\* C36: when the first frame of a session is a registration frame, the handler
\* sends a Join, and every frame it sends carries the length that frame declares
\* and the username bytes that frame holds.
UsernameAsDeclared ==
  [][\A i \in Slots : (ReadOn(i) /\ clients[i].fd # -1 /\ ~clients[i].has_username) => \A f \in {Arrived(i)} : DeclaredRegistration(f) =>
        /\ SendsOf(out', MSG_TYPE_JOIN) # {}
        /\ \A n \in 1..Len(out') : out'[n].op = "send" =>
              /\ out'[n].msg[8] = f[2]
              /\ SubSeq(out'[n].msg, 9, 8 + f[2]) = SubSeq(f, 3, 2 + f[2])]_vars

----------------------------------------------------------------------------
\* Sends and closed sockets

\* Every send among the calls o[k..] is on a descriptor the process holds when it
\* is made, fds being the descriptors held before o[k].
RECURSIVE SentOnHeld(_, _, _)
SentOnHeld(fds, o, k) ==
  IF k > Len(o) THEN TRUE
  ELSE IF o[k].op = "accept" THEN SentOnHeld(fds \cup {o[k].fd}, o, k + 1)
  ELSE IF o[k].op = "close" THEN SentOnHeld(fds \ {o[k].fd}, o, k + 1)
  ELSE IF o[k].op \in {"send", "short"} THEN o[k].fd \in fds /\ SentOnHeld(fds, o, k + 1)
  ELSE SentOnHeld(fds, o, k + 1)

\* C37: every send a handler of an iteration makes is on a socket that is open
\* when it is made, so none is on the socket of a session closed before, by this
\* handler or by an earlier one of the iteration; and an entry poll() reported
\* whose slot has been emptied since gets no handler.
NoSendOnClosed ==
  [][(pc = "dispatch" /\ ready' # ready) =>
        /\ SentOnHeld(open, out', 1)
        /\ \A n \in 1..Len(out') : out'[n].op \in {"send", "short"} => \E j \in Slots : clients[j].fd = out'[n].fd
        /\ (NextEntry > 0 /\ clients[NextEntry - 1].fd = -1) => (out' = <<>> /\ clients' = clients /\ open' = open)]_vars

\* In one iteration poll() reported both slots; the handler of slot 0 closed its
\* session, and the handler of slot 1 then sent a Chat frame, to its own session only.
NoSendOnClosedSeen ==
  /\ pc \in {"dispatch", "test"} /\ last.op = "read" /\ last.slot = 1 /\ last.rd.kind = "data"
  /\ poll_fds[1] >= 0 /\ clients[0].fd = -1 /\ clients[1].fd # -1
  /\ Len(out) = 1 /\ out[1].op = "send" /\ out[1].fd = clients[1].fd /\ out[1].msg[1] = MSG_TYPE_CHAT

----------------------------------------------------------------------------
(* ------------------- the server of src/server.c (epoll) ------------------ *)

\* epoll_create1(0), after socket()
epoll_fd == LowestFree(StdFds \cup {server_fd})

\* The calls of type1_count++ the model follows
MaxType1 == 3

\* The unterminated bytes a buffer is let grow to
MaxHeld == 4

\* The complete frames of type 1 in the bytes f
RECURSIVE Type1Frames(_)
Type1Frames(f) == IF memchr(f) = 0 THEN 0 ELSE (IF f[1] = 1 THEN 1 ELSE 0) + Type1Frames(SubSeq(f, memchr(f) + 1, Len(f)))

\* main() up to the loop: every slot empty, both counters 0, the listening socket
\* and the epoll instance open
EpStart == [NoEp EXCEPT !.open = StdFds \cup {server_fd, epoll_fd}, !.status = "run"]

RECURSIVE broadcasting_loop(_, _, _)
broadcasting_loop(e, msg, i) ==
  IF i >= max_clients THEN e
  ELSE broadcasting_loop(IF e.clients[i].fd # -1 THEN [e EXCEPT !.out = Append(@, Ev("send", e.clients[i].fd, msg))] ELSE e, msg, i + 1)

broadcasting(e, msg) == broadcasting_loop(e, msg, 0)

\* epoll_ctl(EPOLL_CTL_DEL); close(cli->fd); cli->fd = -1; client_count--
ep_close(e, i) == [e EXCEPT !.out = Append(@, Ev("close", e.clients[i].fd, <<>>)), !.open = @ \ {e.clients[i].fd},
                            !.clients[i].fd = -1, !.client_count = @ - 1]

RECURSIVE ep_close_all(_, _)
ep_close_all(e, k) ==
  IF k >= max_clients THEN e
  ELSE ep_close_all(IF e.clients[k].fd # -1 THEN [e EXCEPT !.out = Append(@, Ev("close", e.clients[k].fd, <<>>)), !.open = @ \ {e.clients[k].fd}] ELSE e, k + 1)

\* if (type1_count == client_count): the frame 01 0A to every client, every
\* socket closed, exit(EXIT_SUCCESS)
ep_shutdown(e) ==
  LET closed == ep_close_all(broadcasting(e, <<1, NL>>), 0) IN
  [closed EXCEPT !.out = @ \o <<Ev("close", server_fd, <<>>), Ev("close", epoll_fd, <<>>)>>, !.open = @ \ {server_fd, epoll_fd}, !.status = "exited"]

\* [0][ip:4][port:2] from getpeername, then the frame after its type byte
ep_chat(cli, msg_len) == <<0>> \o AddrList[cli.fd - epoll_fd].ip \o AddrList[cli.fd - epoll_fd].port \o SubSeq(cli.buf, 2, msg_len)

\* while (1) over the buffer of slot i
RECURSIVE ep_loop(_, _)
ep_loop(e, i) ==
  LET cli == e.clients[i]
      msg_len == memchr(cli.buf)
      counted == [e EXCEPT !.type1_count = @ + 1] IN
  IF msg_len = 0 THEN (IF Len(cli.buf) = BUF_SIZE THEN ep_close(e, i) ELSE e)
  ELSE IF cli.buf[1] = 0 THEN ep_loop([broadcasting(e, ep_chat(cli, msg_len)) EXCEPT !.clients[i].buf = SubSeq(cli.buf, msg_len + 1, Len(cli.buf))], i)
  ELSE IF cli.buf[1] = 1 THEN (IF counted.type1_count = counted.client_count THEN ep_shutdown(counted) ELSE counted)
  ELSE ep_loop([e EXCEPT !.clients[i].buf = SubSeq(cli.buf, msg_len + 1, Len(cli.buf))], i)

\* The branch of the loop of main() for an event of the connection in slot i
ep_read(e, i, rd) ==
  LET f == e.clients[i].buf \o rd.data IN
  IF rd.kind = "data" THEN ep_loop([e EXCEPT !.clients[i].buf = f, !.sent[i] = @ + Type1Frames(f) - Type1Frames(e.clients[i].buf)], i)
  ELSE IF rd.kind = "eagain" THEN e
  ELSE ep_close(e, i)

\* The branch for an event of the listening socket: accept(), then the first
\* empty slot, or close(client_fd) when there is none
ep_accept(e, ok) ==
  LET client_fd == LowestFree(e.open)
      free == {j \in Slots : e.clients[j].fd = -1}
      j == FirstOf(free)
      got == [e EXCEPT !.out = Append(@, Ev("accept", client_fd, <<>>))] IN
  IF ~ok THEN [e EXCEPT !.status = "failed", !.open = {}]
  ELSE IF free = {} THEN [got EXCEPT !.out = Append(@, Ev("close", client_fd, <<>>))]
  ELSE [got EXCEPT !.open = @ \cup {client_fd}, !.clients[j] = [fd |-> client_fd, buf |-> <<>>], !.client_count = @ + 1, !.sent[j] = 0]

\* What a connection delivers in one read
EpChunks == { Disc, ChatH, <<0>>, Disc \o ChatH, Filler(BUF_SIZE) }

InitEpoll ==
  /\ InitServer
  /\ rx = [j \in Slots |-> NoRx] /\ feed = NoFeed /\ codec = NoCodec /\ hex = NoHex
  /\ ep = EpStart

\* epoll_wait reports the listening socket
EpAccept ==
  /\ ep.status = "run"
  /\ \E ok \in BOOLEAN : ep' = [ep_accept([ep EXCEPT !.out = <<>>], ok) EXCEPT !.last = Event("accept", -1, <<>>, 0)]
  /\ UNCHANGED <<clients, open, server_running, pc, last, out, ready, poll_fds, saved, hex>>
  /\ UNCHANGED peers

\* epoll_wait reports the connection of slot i, and read() on it returns bytes,
\* 0, or -1 with EAGAIN or another errno
EpRead ==
  /\ ep.status = "run"
  /\ ep.type1_count < MaxType1
  /\ \E i \in {j \in Slots : ep.clients[j].fd # -1} :
     \E rd \in {[kind |-> "data", data |-> c] : c \in {d \in EpChunks : Len(ep.clients[i].buf) + Len(d) <= (IF ep.clients[i].buf = <<>> THEN BUF_SIZE ELSE MaxHeld)}}
                \cup {[kind |-> k, data |-> <<>>] : k \in {"eof", "eagain", "error"}} :
        ep' = [ep_read([ep EXCEPT !.out = <<>>], i, rd) EXCEPT !.last = Event("read", i, rd, Len(rd.data))]
  /\ UNCHANGED <<clients, open, server_running, pc, last, out, ready, poll_fds, saved, hex>>
  /\ UNCHANGED peers

NextEpoll == EpAccept \/ EpRead

SpecEpoll == InitEpoll /\ [][NextEpoll]_vars

\* The slots of the table that hold a connection
EpOccupied == {i \in Slots : ep.clients[i].fd # -1}

\* C38: the server shuts down (01 0A to every client, every socket closed, exit)
\* in the handler of a disconnect frame that makes type1_count equal to
\* client_count, and in no other; and it shuts down in the handler that reads a
\* disconnect frame after which every connected client has sent one.
ShutdownAtThreshold ==
  [][(ep.status = "run" /\ ep' # ep) =>
        /\ ep'.status = "exited" <=>
              /\ ep'.last.op = "read" /\ ep'.last.rd.kind = "data"
              /\ ep'.type1_count = ep.type1_count + 1 /\ ep'.type1_count = ep.client_count
        /\ ep'.status = "exited" =>
              /\ ep'.open = StdFds
              /\ \A i \in EpOccupied : \E n \in 1..Len(ep'.out) : ep'.out[n] = Ev("send", ep.clients[i].fd, <<1, NL>>)
        /\ (/\ ep'.last.op = "read" /\ ep'.last.rd.kind = "data"
            /\ ep'.sent[ep'.last.slot] > ep.sent[ep'.last.slot]
            /\ \A i \in EpOccupied : ep'.sent[i] = 1) => ep'.status = "exited"]_vars

\* C39: as long as the server runs, client_count is the number of occupied
\* slots, and the handler of a read adds to type1_count the number of disconnect
\* frames that read completes, so that no frame is counted twice.
CountsEachOnce ==
  /\ [](ep.status = "run" => ep.client_count = Cardinality(EpOccupied))
  /\ [][(ep.status = "run" /\ ep'.status = "run" /\ ep' # ep /\ ep'.last.op = "read") =>
          ep'.type1_count - ep.type1_count = ep'.sent[ep'.last.slot] - ep.sent[ep'.last.slot]]_vars

=============================================================================
